---- MODULE Spec2Model ----
(***************************************************************************)
(* Vacancy scraper: Content Acquirer (ScraperService), Cache Tier          *)
(* (CacheService) and Discovery Engine (DiscoveryService).                 *)
(*                                                                         *)
(* Several specifications share this module, one per component:            *)
(*   SpecNJ       needsJavaScript applied to bounded pages                 *)
(*   SpecCache    CacheService.get / set under an advancing clock          *)
(*   SpecScraper  concurrent ScraperService.fetch calls and close()        *)
(*   SpecDisc     DiscoveryService.findCareerPage                          *)
(*   SpecKey      CacheService.keyFor applied to bounded inputs            *)
(*   SpecPlat     detectPlatform / detectPlatformFromHtml                  *)
(*   SpecOrch     Orchestrator.scrape and ChatSyncOrchestrator.scrape on   *)
(*                one CacheService                                         *)
(*   SpecLinks    extractDepartmentLinks applied to bounded pages          *)
(*   SpecPage     ChatSyncOrchestrator.extractPage on bounded documents    *)
(*   SpecAds      LinkedInAdsOrchestrator.scrape on one CacheService       *)
(* Each pins the variables of the other components to their initial value. *)
(***************************************************************************)
EXTENDS Integers, Sequences, FiniteSets, TLC

VARIABLES
    \* ---- needsJavaScript ----
    njPage,        \* the html handed to needsJavaScript, a sequence of segments
    njDone,        \* whether needsJavaScript has been called on njPage
    njResult,      \* what it returned (FALSE before the call)
    \* ---- CacheService ----
    redisOn,       \* this.redis # null: a primary store was configured
    memoryCache,   \* this.memoryCache: key -> [data, expires] or NoEntry
    redisStore,    \* the primary store's content: key -> [str, expires] or NoEntry
    now,           \* Date.now(), in milliseconds
    sets,          \* how many set calls have been made
    cacheOp,       \* the get/set call completed at the present instant, if any
    lastSet,       \* key -> the most recent set call on it, or NoEntry
    \* ---- ScraperService ----
    browser,       \* this.browser: 0 for null, else the instance it refers to
    launched,      \* browser instances launched so far, numbered 1..launched
    closedB,       \* the launched instances that have been closed
    closing,       \* a close() call is suspended at await this.browser.close()
    closes,        \* how many close() calls have been made
    calls,         \* the fetch(url) calls: call -> its position and data
    \* ---- DiscoveryService ----
    fcp,           \* the findCareerPage(domain) call: its position, its local
                   \* variables, the fetches it has started and its result
    \* ---- CacheService.keyFor ----
    kf,            \* two raw inputs and the keys keyFor gave for them
    \* ---- platform detection ----
    plat,          \* a page's url and html and the platform detected for it
    \* ---- Orchestrator / ChatSyncOrchestrator ----
    orch,          \* the Orchestrator.scrape(domain, detailLimit) call under way
    cs,            \* the ChatSyncOrchestrator.scrape(domain, maxPages) call
    \* ---- DiscoveryService.extractDepartmentLinks ----
    edl,           \* a career page's anchors, its base URL and the links extracted
    \* ---- ContentExtractor / ChatSyncOrchestrator.extractPage ----
    xp,            \* an html document, a url and the page record built from them
    \* ---- LinkedInAdsOrchestrator ----
    li             \* the LinkedInAdsOrchestrator.scrape(accountOwner, country, maxAds) call

njVars == <<njPage, njDone, njResult>>
cacheVars == <<redisOn, memoryCache, redisStore, now, sets, cacheOp, lastSet>>

scraperVars == <<browser, launched, closedB, closing, closes, calls>>

discVars == <<fcp>>

keyVars == <<kf>>

platVars == <<plat>>

orchVars == <<orch, cs>>

linkVars == <<edl>>

pageVars == <<xp>>

adsVars == <<li>>

vars == <<njVars, cacheVars, scraperVars, discVars, keyVars, platVars, orchVars, linkVars, pageVars, adsVars>>

\* what an action of one component leaves alone
NotNJ == <<cacheVars, scraperVars, discVars, keyVars, platVars, orchVars, linkVars, pageVars, adsVars>>
NotCache == <<njVars, scraperVars, discVars, keyVars, platVars, orchVars, linkVars, pageVars, adsVars>>
NotScraper == <<njVars, cacheVars, discVars, keyVars, platVars, orchVars, linkVars, pageVars, adsVars>>
NotDisc == <<njVars, cacheVars, scraperVars, keyVars, platVars, orchVars, linkVars, pageVars, adsVars>>
NotKey == <<njVars, cacheVars, scraperVars, discVars, platVars, orchVars, linkVars, pageVars, adsVars>>
NotPlat == <<njVars, cacheVars, scraperVars, discVars, keyVars, orchVars, linkVars, pageVars, adsVars>>
NotOrch == <<njVars, scraperVars, discVars, keyVars, platVars, linkVars, pageVars, adsVars>>
NotLinks == <<njVars, cacheVars, scraperVars, discVars, keyVars, platVars, orchVars, pageVars, adsVars>>
NotPage == <<njVars, cacheVars, scraperVars, discVars, keyVars, platVars, orchVars, linkVars, adsVars>>
NotAds == <<njVars, scraperVars, discVars, keyVars, platVars, orchVars, linkVars, pageVars>>

(***************************************************************************)
(* HTML pages.  A page is a sequence of segments; a segment is a run of    *)
(* raw characters of one kind with its raw length n:                       *)
(*   tag        one markup tag  <...>                                      *)
(*   text       a run of visible characters without leading/trailing       *)
(*              whitespace and without any shell signature                 *)
(*   ws         a run of whitespace                                        *)
(*   rootdiv    <div id="root"></div>              (21 characters)         *)
(*   loading    the visible text  loading...       (10 characters)         *)
(*   noscript   <noscript>enable javascript        (10 + 17 characters)    *)
(*   glimlach   the visible text  glimlach         (8 characters)          *)
(*   emptybody  <body></body>                      (13 characters)         *)
(***************************************************************************)
MaxSegs == 3

Seg(k, n) == [k |-> k, n |-> n]

Segments ==
    { Seg("tag", 5), Seg("tag", 600), Seg("text", 250), Seg("text", 501),
      Seg("ws", 3), Seg("rootdiv", 21), Seg("loading", 10),
      Seg("noscript", 27), Seg("glimlach", 8), Seg("emptybody", 13) }

Pages == UNION { [1..n -> Segments] : n \in 0..MaxSegs }

RECURSIVE SumLen(_)
SumLen(page) ==
    IF page = <<>> THEN 0 ELSE Head(page).n + SumLen(Tail(page))

\* html.length
HtmlLength(page) == SumLen(page)

\* html.replace(/<[^>]+>/g, ' '): every tag becomes one blank; 0 stands for a
\* blank, a positive number for that many visible characters.
StripTags(seg) ==
    CASE seg.k = "tag"       -> <<0>>
      [] seg.k = "ws"        -> <<0>>
      [] seg.k = "rootdiv"   -> <<0, 0>>
      [] seg.k = "emptybody" -> <<0, 0>>
      [] seg.k = "noscript"  -> <<0, seg.n - 10>>
      [] OTHER               -> <<seg.n>>

RECURSIVE Flatten(_)
Flatten(page) ==
    IF page = <<>> THEN <<>> ELSE StripTags(Head(page)) \o Flatten(Tail(page))

\* .replace(/\s+/g, ' ').trim().length over the atoms: a run of blanks
\* counts one character when visible text stands on both sides of it, and
\* nothing at either end.
RECURSIVE CollapsedLen(_, _, _)
CollapsedLen(atoms, seenText, pendingBlank) ==
    IF atoms = <<>> THEN 0
    ELSE IF Head(atoms) = 0
         THEN CollapsedLen(Tail(atoms), seenText, seenText)
         ELSE (IF pendingBlank THEN 1 ELSE 0) + Head(atoms)
              + CollapsedLen(Tail(atoms), TRUE, FALSE)

TextContentLength(page) == CollapsedLen(Flatten(page), FALSE, FALSE)

ShortPageLimit == 1000
MinTextLength == 500

SpaIndicatorKinds == {"rootdiv", "loading", "noscript", "glimlach", "emptybody"}

HasSpaIndicator(page) ==
    \E i \in 1..Len(page) : page[i].k \in SpaIndicatorKinds

HasContent(page) == TextContentLength(page) > MinTextLength

NeedsJavaScript(page) ==
    IF HtmlLength(page) < ShortPageLimit THEN TRUE
    ELSE HasSpaIndicator(page) \/ ~HasContent(page)

(***************************************************************************)
(* SpecNJ: needsJavaScript on every bounded page.                          *)
(***************************************************************************)
NJIdle == njPage = <<>> /\ njDone = FALSE /\ njResult = FALSE

NJInit == njPage \in Pages /\ njDone = FALSE /\ njResult = FALSE

NJCall ==
    /\ ~njDone
    /\ njDone' = TRUE
    /\ njResult' = NeedsJavaScript(njPage)
    /\ UNCHANGED <<njPage, NotNJ>>


(***************************************************************************)
(* CacheService.                                                           *)
(* A call's outcome is a record with exc = TRUE when it threw.             *)
(***************************************************************************)
MaxTicks == 2
MaxSets == 2
TickMs == 500

Keys == {"k1", "k2"}
\* cached values and null are records, so that any two values compare
Values == {[v |-> "v1"], [v |-> "v2"]}
Null == [null |-> TRUE]
NoEntry == [none |-> TRUE]
\* the optional ttl argument: <<>> when omitted, <<seconds>> when given
Undefined == <<>>
TtlArgs == {Undefined, <<0>>, <<1>>}
RedisFaults == {"ok", "error", "garbage"}

DefaultTtl == 86400
MsPerSecond == 1000

Ok(v) == [exc |-> FALSE, val |-> v]
Threw == [exc |-> TRUE, val |-> Null]

\* try { body } catch { handler }
TryCatch(body, handler) == IF body.exc THEN handler ELSE body

\* JSON.stringify(data) / JSON.parse(str)
JsonStringify(data) == [json |-> data]
Garbage == [garbage |-> TRUE]
Nil == [nil |-> TRUE]
JsonParse(str) ==
    IF "json" \in DOMAIN str THEN Ok(str.json) ELSE Threw

\* await this.redis.get(key): the stored string, nil for a missing or
\* expired key, a string some other writer left there, or an error.
RedisGet(store, key, t, fault) ==
    CASE fault = "error"   -> Threw
      [] fault = "garbage" -> Ok(Garbage)
      [] OTHER -> IF store[key] # NoEntry /\ store[key].expires > t
                  THEN Ok(store[key].str) ELSE Ok(Nil)

\* await this.redis.setex(key, expiry, str): SETEX rejects a ttl <= 0.
RedisSetex(fault, expiry) ==
    IF fault = "error" \/ expiry <= 0 THEN Threw ELSE Ok("OK")

GetResult(ret, mem, fell) == [exc |-> FALSE, ret |-> ret, mem |-> mem, redisFailed |-> fell]

\* get on the primary store with the try/catch left out
GetFromRedis_NoCatch(mem, store, key, t, fault) ==
    LET data == RedisGet(store, key, t, fault)
        parsed == IF data.exc THEN Threw
                  ELSE IF data.val # Nil THEN JsonParse(data.val) ELSE Ok(Null)
    IN  [exc |-> parsed.exc, ret |-> parsed.val, mem |-> mem, redisFailed |-> parsed.exc]

\* get, the branch taken when this.redis is set (lines 20-27)
GetFromRedis(mem, store, key, t, fault) ==
    LET data == RedisGet(store, key, t, fault)
        parsed == IF data.exc THEN Threw
                  ELSE IF data.val # Nil THEN JsonParse(data.val) ELSE Ok(Null)
        r == TryCatch(parsed, Ok(Null))
    IN  [exc |-> r.exc, ret |-> r.val, mem |-> mem, redisFailed |-> parsed.exc]

\* the process-local branch with expires >= Date.now()
GetFromMemory_Inclusive(mem, key, t) ==
    LET cached == mem[key] IN
    IF cached # NoEntry /\ cached.expires >= t
    THEN GetResult(cached.data, mem, FALSE)
    ELSE GetResult(Null, [mem EXCEPT ![key] = NoEntry], FALSE)

\* get, the process-local branch (lines 29-34)
GetFromMemory(mem, key, t) ==
    LET cached == mem[key] IN
    IF cached # NoEntry /\ cached.expires > t
    THEN GetResult(cached.data, mem, FALSE)
    ELSE GetResult(Null, [mem EXCEPT ![key] = NoEntry], FALSE)

CacheGet(rOn, mem, store, key, t, fault) ==
    IF rOn THEN GetFromRedis(mem, store, key, t, fault)
    ELSE GetFromMemory(mem, key, t)

Expiry(ttl) == IF ttl = Undefined THEN DefaultTtl ELSE ttl[1]

\* the local write that replaces the data and leaves a present entry's expires
MemorySet_KeepsExpires(mem, key, data, expiry, t) ==
    [mem EXCEPT ![key] =
        [data |-> data,
         expires |-> IF mem[key] = NoEntry THEN t + expiry * MsPerSecond
                     ELSE mem[key].expires]]

\* set, the process-local write (lines 48-51)
MemorySet(mem, key, data, expiry, t) ==
    [mem EXCEPT ![key] = [data |-> data, expires |-> t + expiry * MsPerSecond]]

\* set: [exc, mem, store, local] with local = TRUE when the entry went to
\* the process-local store.
CacheSet(rOn, mem, store, key, data, ttl, t, fault) ==
    LET expiry == Expiry(ttl)
        wrote == IF rOn THEN RedisSetex(fault, expiry) ELSE Threw
    IN  IF rOn /\ ~wrote.exc
        THEN [exc |-> FALSE, mem |-> mem, local |-> FALSE,
              store |-> [store EXCEPT ![key] =
                            [str |-> JsonStringify(data),
                             expires |-> t + expiry * MsPerSecond]]]
        ELSE [exc |-> FALSE, mem |-> MemorySet(mem, key, data, expiry, t),
              local |-> TRUE, store |-> store]

NoOp == [op |-> "none"]

CacheIdle ==
    /\ redisOn = FALSE
    /\ memoryCache = [k \in Keys |-> NoEntry]
    /\ redisStore = [k \in Keys |-> NoEntry]
    /\ now = 0
    /\ sets = 0
    /\ cacheOp = NoOp
    /\ lastSet = [k \in Keys |-> NoEntry]

CacheInit ==
    /\ redisOn \in BOOLEAN
    /\ memoryCache = [k \in Keys |-> NoEntry]
    /\ redisStore = [k \in Keys |-> NoEntry]
    /\ now = 0
    /\ sets = 0
    /\ cacheOp = NoOp
    /\ lastSet = [k \in Keys |-> NoEntry]

FaultsNow == IF redisOn THEN RedisFaults ELSE {"ok"}
\* a primary store that answers every command
Healthy == {"ok"}

Get(key) ==
    \E fault \in FaultsNow :
        LET r == CacheGet(redisOn, memoryCache, redisStore, key, now, fault) IN
        /\ memoryCache' = r.mem
        /\ cacheOp' = [op |-> "get", key |-> key, exc |-> r.exc,
                       ret |-> r.ret, redisFailed |-> r.redisFailed]
        /\ UNCHANGED <<redisOn, redisStore, now, sets, lastSet, NotCache>>

Set(key, data, ttl) ==
    /\ sets < MaxSets
    /\ sets' = sets + 1
    /\ \E fault \in FaultsNow \ {"garbage"} :
        LET r == CacheSet(redisOn, memoryCache, redisStore, key, data, ttl, now, fault) IN
        /\ memoryCache' = r.mem
        /\ redisStore' = r.store
        /\ cacheOp' = [op |-> "set", key |-> key, exc |-> r.exc,
                       ret |-> Null, redisFailed |-> (redisOn /\ r.local)]
        /\ lastSet' = [lastSet EXCEPT ![key] =
                          [data |-> data, at |-> now, ttl |-> Expiry(ttl),
                           local |-> r.local]]
        /\ UNCHANGED <<redisOn, now, NotCache>>

\* the clock advances; the call recorded in cacheOp is then in the past
Tick ==
    /\ now < MaxTicks * TickMs
    /\ now' = now + TickMs
    /\ cacheOp' = NoOp
    /\ UNCHANGED <<redisOn, memoryCache, redisStore, sets, lastSet, NotCache>>

CacheNext ==
    \/ \E k \in Keys : Get(k)
    \/ \E k \in Keys, v \in Values, ttl \in TtlArgs : Set(k, v, ttl)
    \/ Tick


(***************************************************************************)
(* ScraperService.fetch, fetchWithHttp, fetchWithPlaywright and close.     *)
(* Several fetch calls run interleaved on one ScraperService; a call is    *)
(* suspended at each await and resumes in one step.                        *)
(***************************************************************************)
NumCalls == 2
MaxCloses == 1

Calls == 1..NumCalls

\* bodies an HTTP GET may deliver
ContentPage == <<Seg("tag", 600), Seg("text", 501)>>
ShellPage == <<Seg("tag", 600), Seg("rootdiv", 21)>>
HttpBodies == {ContentPage, ShellPage}
HttpStatuses == {200, 404}
\* documents the browser may capture; response?.status() ?? 0
RenderedPage == <<Seg("tag", 600), Seg("text", 501), Seg("ws", 3)>>
BrowserStatuses == {0, 200}

NoHttp == [exc |-> FALSE, status |-> 0, body |-> <<>>]
HttpOutcomes ==
    {[exc |-> TRUE, status |-> 0, body |-> <<>>]}
    \cup [exc : {FALSE}, status : HttpStatuses, body : HttpBodies]

IdleCall ==
    [pc |-> "idle", http |-> NoHttp, invoked |-> FALSE, ctx |-> "none",
     outcome |-> "none", thrownAt |-> "none",
     usedPlaywright |-> FALSE, status |-> 0, html |-> <<>>]

\* what fetch does once fetchWithHttp has settled (lines 131-141)
AfterHttp_NoCatch(http) ==
    IF http.exc THEN "throw"
    ELSE IF http.status = 200 /\ ~NeedsJavaScript(http.body)
         THEN "return" ELSE "browser"

AfterHttp_AnyStatus(http) ==
    IF http.exc THEN "browser"
    ELSE IF ~NeedsJavaScript(http.body) THEN "return" ELSE "browser"

AfterHttp(http) ==
    IF http.exc THEN "browser"
    ELSE IF http.status = 200 /\ ~NeedsJavaScript(http.body)
         THEN "return" ELSE "browser"

Returned(c, usedPw, status, html) ==
    [c EXCEPT !.pc = "done", !.outcome = "returned",
              !.usedPlaywright = usedPw, !.status = status, !.html = html]

Thrown(c, stage) ==
    [c EXCEPT !.pc = "done", !.outcome = "thrown", !.thrownAt = stage]

\* await this.browser.newContext(...) on instance b: fails on a closed
\* instance, and may fail on an open one.
NewContext(c, b, fails) ==
    IF fails \/ b \in closedB
    THEN Thrown(c, "context")
    ELSE [c EXCEPT !.pc = "setup", !.ctx = "open"]

ScraperIdle ==
    /\ browser = 0
    /\ launched = 0
    /\ closedB = {}
    /\ closing = FALSE
    /\ closes = 0
    /\ calls = [i \in Calls |-> IdleCall]

ScraperInit == ScraperIdle

\* fetch(url) is called: fetchWithHttp issues the GET (lines 130-132, 50-61)
StartFetch(i) ==
    /\ calls[i].pc = "idle"
    /\ calls' = [calls EXCEPT ![i].pc = "http"]
    /\ UNCHANGED <<browser, launched, closedB, closing, closes, NotScraper>>

\* fetchWithHttp settles; fetch returns it or enters fetchWithPlaywright up
\* to its first await: the launch when this.browser is null, else
\* newContext (lines 62-67, 132-141, 70-88)
HttpSettles(i) ==
    /\ calls[i].pc = "http"
    /\ \E http \in HttpOutcomes, fails \in BOOLEAN :
        LET c == [calls[i] EXCEPT !.http = http]
            next == AfterHttp(http)
            b == [c EXCEPT !.invoked = TRUE]
        IN  calls' = [calls EXCEPT ![i] =
              CASE next = "return" -> Returned(c, FALSE, http.status, http.body)
                [] next = "throw"  -> Thrown(c, "http")
                [] OTHER -> IF browser = 0
                            THEN [b EXCEPT !.pc = "launching"]
                            ELSE NewContext(b, browser, fails)]
    /\ UNCHANGED <<browser, launched, closedB, closing, closes, NotScraper>>

\* chromium.launch settles: on success this.browser is assigned and
\* newContext is called on it (lines 72-93)
LaunchSettles(i) ==
    /\ calls[i].pc = "launching"
    /\ \/ /\ calls' = [calls EXCEPT ![i] = Thrown(calls[i], "launch")]
          /\ UNCHANGED <<browser, launched>>
       \/ \E fails \in BOOLEAN :
          /\ launched' = launched + 1
          /\ browser' = launched + 1
          /\ calls' = [calls EXCEPT ![i] = NewContext(calls[i], launched + 1, fails)]
    /\ UNCHANGED <<closedB, closing, closes, NotScraper>>

\* context.newPage() and page.addInitScript(), both outside the try
\* (lines 95-102)
SetupSettles(i) ==
    /\ calls[i].pc = "setup"
    /\ \E fails \in BOOLEAN :
        calls' = [calls EXCEPT ![i] =
                    IF fails THEN Thrown(calls[i], "setup")
                    ELSE [calls[i] EXCEPT !.pc = "nav"]]
    /\ UNCHANGED <<browser, launched, closedB, closing, closes, NotScraper>>

\* the try block (goto, waits, scroll, content) and its finally, which
\* closes the context (lines 104-127, 141-142)
NavigationSettles(i) ==
    /\ calls[i].pc = "nav"
    /\ \E fails \in BOOLEAN, status \in BrowserStatuses :
        LET c == [calls[i] EXCEPT !.ctx = "closed"] IN
        calls' = [calls EXCEPT ![i] =
                    IF fails THEN Thrown(c, "nav")
                    ELSE Returned(c, TRUE, status, RenderedPage)]
    /\ UNCHANGED <<browser, launched, closedB, closing, closes, NotScraper>>

\* close() up to its await: the instance this.browser refers to is closed
\* (lines 145-147)
CloseStart ==
    /\ closes < MaxCloses
    /\ ~closing
    /\ browser # 0
    /\ closes' = closes + 1
    /\ closing' = TRUE
    /\ closedB' = closedB \cup {browser}
    /\ UNCHANGED <<browser, launched, calls, NotScraper>>

\* close() resumes: this.browser = null (line 148)
CloseFinish ==
    /\ closing
    /\ closing' = FALSE
    /\ browser' = 0
    /\ UNCHANGED <<launched, closedB, closes, calls, NotScraper>>

ScraperNext ==
    \/ \E i \in Calls : StartFetch(i)
    \/ \E i \in Calls : HttpSettles(i)
    \/ \E i \in Calls : LaunchSettles(i)
    \/ \E i \in Calls : SetupSettles(i)
    \/ \E i \in Calls : NavigationSettles(i)
    \/ CloseStart
    \/ CloseFinish

OpenInstances == (1..launched) \ closedB

(***************************************************************************)
(* DiscoveryService.findCareerPage(domain) for the domain d.nl.            *)
(***************************************************************************)
NumCandidates == 4

\* URLs a sitemap of d.nl may list
UCareers == "https://d.nl/careers"
UJob == "https://d.nl/jobs/dev"
UAbout == "https://d.nl/about"
USmJobs == "https://d.nl/sitemap-jobs.xml"
USmCareers == "https://d.nl/careers.xml"
USmPages == "https://d.nl/sitemap-pages.xml"
USmVacancies == "https://d.nl/vacancies.xml"
USmWerken == "https://d.nl/werken.xml"

\* CAREER_KEYWORDS.some(kw => url.toLowerCase().includes(kw))
HasCareerKeyword(u) ==
    u \in {UCareers, UJob, USmJobs, USmCareers, USmVacancies, USmWerken}
\* u.endsWith('.xml')
EndsWithXml(u) ==
    u \in {USmJobs, USmCareers, USmPages, USmVacancies, USmWerken}
\* mainPagePatterns.some(p => p.test(u))
IsMainPage(u) == u = UCareers
\* u.length
UrlLength(u) ==
    CASE u = UCareers -> 20 [] u = UJob -> 21 [] u = UAbout -> 18
      [] u = USmJobs -> 29 [] u = USmCareers -> 24 [] u = USmPages -> 30
      [] u = USmVacancies -> 26 [] u = USmWerken -> 23

Take(seq, n) == SubSeq(seq, 1, IF Len(seq) < n THEN Len(seq) ELSE n)

\* sitemap documents: elements <loc>url</loc> and others
Loc(u) == [tag |-> "loc", text |-> u]
LastMod == [tag |-> "lastmod", text |-> "2026-01-23"]
XmlDocs ==
    { <<>>,
      <<Loc(UAbout), LastMod>>,
      <<Loc(UJob), LastMod, Loc(UCareers)>>,
      <<Loc(UAbout), Loc(UJob)>>,
      <<Loc(USmJobs), Loc(USmPages)>>,
      <<Loc(USmPages), Loc(UAbout)>>,
      <<Loc(USmJobs), Loc(USmCareers), Loc(UCareers)>>,
      <<Loc(USmJobs), Loc(USmPages), Loc(USmCareers), Loc(USmVacancies),
        Loc(USmWerken)>> }

\* what fetch(sitemapUrl) may give: an exception, a response that is not
\* ok, or an ok response with a document
SitemapResponses ==
    { [kind |-> "throw", xml |-> <<>>], [kind |-> "notok", xml |-> <<>>] }
    \cup [kind : {"ok"}, xml : XmlDocs]

RECURSIVE ParseSitemapXml(_)
ParseSitemapXml(xml) ==
    IF xml = <<>> THEN <<>>
    ELSE (IF Head(xml).tag = "loc" THEN <<Head(xml).text>> ELSE <<>>)
         \o ParseSitemapXml(Tail(xml))

SitemapLocations == 4
MaxNestedSitemaps == 3
MaxSitemapProbes == 5
BatchSize == 3
MaxLinkProbes == 3
MaxAdditionalUrls == 50
ErrorStatus == 400

\* sortCareerUrls: Array.prototype.sort (stable) with the comparator of
\* lines 204-210
ComesBefore(a, b) ==
    IF IsMainPage(a) # IsMainPage(b) THEN IsMainPage(a)
    ELSE UrlLength(a) < UrlLength(b)

RECURSIVE InsertSorted(_, _)
InsertSorted(sorted, u) ==
    IF sorted = <<>> THEN <<u>>
    ELSE IF ComesBefore(u, Head(sorted)) THEN <<u>> \o sorted
         ELSE <<Head(sorted)>> \o InsertSorted(Tail(sorted), u)

RECURSIVE SortCareerUrls(_)
SortCareerUrls(urls) ==
    IF urls = <<>> THEN <<>>
    ELSE InsertSorted(SortCareerUrls(SubSeq(urls, 1, Len(urls) - 1)), urls[Len(urls)])

\* getCareerPageCandidates('d.nl'), of which the first NumCandidates are used
AllCandidates ==
    << "https://www.werkenbijd.nl", "https://werkenbijd.nl",
       "https://careers.d.nl", "https://jobs.d.nl", "https://werkenbij.d.nl",
       "https://werken.d.nl", "https://d.nl/vacatures", "https://d.nl/careers",
       "https://d.nl/jobs", "https://d.nl/werken-bij", "https://d.nl/werkenbij",
       "https://d.nl/werk", "https://d.nl/jobs/all", "https://d.nl/careers/jobs",
       "https://d.nl/nl/vacatures", "https://d.nl/nl/careers",
       "https://d.nl/en/careers", "https://d.nl/over-ons/vacatures",
       "https://d.nl/join-us", "https://d.nl/join", "https://d.nl/team",
       "https://d.nl/open-positions", "https://d.nl/job-openings" >>

Candidates == Take(AllCandidates, NumCandidates)

\* normalizeUrl('d.nl')
HomeUrl == "https://d.nl"

\* anchors of a homepage: resolved href and whether href or text holds one
\* of the careerKeywords of extractCareerLinks
Anchor(u, kw) == [href |-> u, kw |-> kw]
ACareers == Anchor("https://d.nl/careers", TRUE)
AJobs == Anchor("https://jobs.d.nl/", TRUE)
AJoin == Anchor("https://d.nl/join-us", TRUE)
AHiring == Anchor("https://d.nl/hiring", TRUE)
AContact == Anchor("https://d.nl/contact", FALSE)
HomeAnchors ==
    { <<>>, <<AContact>>, <<AContact, ACareers, ACareers>>,
      <<ACareers, AJobs, AContact, AJoin, AHiring>> }

RECURSIVE Dedup(_, _)
Dedup(seq, seen) ==
    IF seq = <<>> THEN <<>>
    ELSE IF Head(seq) \in seen THEN Dedup(Tail(seq), seen)
         ELSE <<Head(seq)>> \o Dedup(Tail(seq), seen \cup {Head(seq)})

RECURSIVE Hrefs(_)
Hrefs(anchors) ==
    IF anchors = <<>> THEN <<>>
    ELSE (IF Head(anchors).kw THEN <<Head(anchors).href>> ELSE <<>>)
         \o Hrefs(Tail(anchors))

\* scraper.extractCareerLinks(html, baseUrl): [...new Set(links)]
ExtractCareerLinks(html) == Dedup(Hrefs(html.anchors), {})

\* page texts and html.toLowerCase()
PageTexts == {"We Are Hiring", "About us"}
ToLowerCase(text) ==
    CASE text = "We Are Hiring" -> "we are hiring"
      [] text = "About us" -> "about us"
      [] OTHER -> text
\* phrases of careerIndicators a lowercased text includes
IncludesIndicator(lower) == lower \in {"we are hiring"}

LooksLikeCareerPage(html) == IncludesIndicator(ToLowerCase(html.text))

\* what scraper.fetch(url) may give: it throws, or returns a status and the
\* html; id tells the documents of different fetches apart.
Html(id, text, anchors) == [id |-> id, text |-> text, anchors |-> anchors]
NoHtml == Html(0, "", <<>>)
FetchThrew == [exc |-> TRUE, status |-> 0, html |-> NoHtml]
Pending == [exc |-> FALSE, status |-> -1, html |-> NoHtml]
FetchStatuses == {200, 404}
FetchOutcomes(id, anchorChoices) ==
    {FetchThrew} \cup
    { [exc |-> FALSE, status |-> st, html |-> Html(id, t, a)] :
        st \in FetchStatuses, t \in PageTexts, a \in anchorChoices }

SitemapUrlsToTry ==
    << "https://d.nl/sitemap.xml", "https://d.nl/sitemap_index.xml",
       "https://d.nl/sitemap-index.xml", "https://d.nl/sitemaps.xml" >>

Min(a, b) == IF a < b THEN a ELSE b

NoResult == [kind |-> "none", url |-> "", html |-> NoHtml, additionalUrls |-> <<>>]

\* findCareerPage has been called and fetchSitemapUrls has issued its first
\* fetch (lines 125, 16-28)
DiscInit ==
    fcp = [pc |-> "sitemap", idx |-> 1,
           nestedQueue |-> <<>>, curUrls |-> <<>>, allUrls |-> <<>>,
           sitemapUrls |-> <<>>, links |-> <<>>, inflight |-> <<>>,
           settled |-> <<>>,
           smIndex |-> <<>>, nestedGot |-> {},
           smLog |-> <<SitemapUrlsToTry[1]>>, log |-> <<>>,
           sawAcceptable |-> FALSE, result |-> NoResult]

DiscIdle == DiscInit

LogEntry(u, stage) == [url |-> u, stage |-> stage]

\* return { url, html, platform, additionalUrls }
Found(f, u, html, more) ==
    [f EXCEPT !.pc = "done",
              !.result = [kind |-> "found", url |-> u, html |-> html,
                          additionalUrls |-> Take(more, MaxAdditionalUrls)]]

\* return null (line 194)
NotFound(f) == [f EXCEPT !.pc = "done", !.result.kind = "null"]

\* an exception leaves findCareerPage
Rejected(f) == [f EXCEPT !.pc = "done", !.result.kind = "thrown"]

\* the homepage stage starts: scraper.fetch(normalizeUrl(domain)) (line 173)
EnterHome(f) ==
    [f EXCEPT !.pc = "home", !.idx = 1, !.inflight = <<Pending>>,
              !.settled = <<>>,
              !.log = Append(@, LogEntry(HomeUrl, "home"))]

\* the batch starting at candidate i is fetched in parallel (lines 151-158)
EnterBatch_SkipToHome(f, i) == EnterHome(f)

EnterBatch(f, i) ==
    IF i > Len(Candidates) THEN EnterHome(f)
    ELSE LET batch == SubSeq(Candidates, i, Min(i + BatchSize - 1, Len(Candidates))) IN
         [f EXCEPT !.pc = "batch", !.idx = i,
                   !.inflight = [j \in 1..Len(batch) |-> Pending],
                   !.settled = <<>>,
                   !.log = @ \o [j \in 1..Len(batch) |-> LogEntry(batch[j], "candidate")]]

\* the k-th ranked sitemap URL is fetched (lines 133-135)
StartProbe(f, k) ==
    [f EXCEPT !.pc = "probe", !.idx = k, !.inflight = <<Pending>>,
              !.log = Append(@, LogEntry(f.sitemapUrls[k], "sitemap"))]

\* the k-th harvested link is fetched (lines 177-179)
StartLink(f, k) ==
    [f EXCEPT !.pc = "link", !.idx = k, !.inflight = <<Pending>>,
              !.log = Append(@, LogEntry(f.links[k], "link"))]

\* fetchSitemapUrls returns allUrls filtered by keyword (lines 70-74);
\* findCareerPage is still suspended at its await (line 125)
ReturnSitemapUrls(f, all) ==
    [f EXCEPT !.pc = "resume",
              !.nestedQueue = <<>>, !.curUrls = <<>>, !.allUrls = <<>>,
              !.sitemapUrls = SelectSeq(all, HasCareerKeyword)]

\* findCareerPage resumes: it sorts the list in place and starts its first
\* stage; the locals of fetchSitemapUrls are gone (lines 125-133, 149)
EnterStages(f) ==
    LET g == [f EXCEPT !.sitemapUrls = SortCareerUrls(@),
                       !.smIndex = <<>>, !.nestedGot = {}]
    IN  IF Len(g.sitemapUrls) > 0 THEN StartProbe(g, 1) ELSE EnterBatch(g, 1)

\* continue: the next sitemap location, if any (lines 26, 33, 65-67)
ContinueSitemap(f) ==
    IF f.idx = SitemapLocations THEN ReturnSitemapUrls(f, f.allUrls)
    ELSE [f EXCEPT !.idx = @ + 1, !.nestedQueue = <<>>, !.curUrls = <<>>,
                   !.smLog = Append(@, SitemapUrlsToTry[f.idx + 1])]

\* allUrls.push(...urls); if (allUrls.length > 0) break (lines 62-64)
PushAndCheck(f, all) ==
    IF Len(all) > 0 THEN ReturnSitemapUrls(f, all)
    ELSE ContinueSitemap([f EXCEPT !.allUrls = all])

\* every nested sitemap of an index fetched, whatever its URL
SitemapStep_AllNested(f, resp) ==
    IF resp.kind # "ok" THEN ContinueSitemap(f)
    ELSE LET urls == ParseSitemapXml(resp.xml)
             nestedSitemaps == SelectSeq(urls, EndsWithXml)
             careerSitemaps == Take(nestedSitemaps, MaxNestedSitemaps)
         IN  IF Len(nestedSitemaps) > 0 /\ careerSitemaps # <<>>
             THEN [f EXCEPT !.pc = "nested", !.nestedQueue = careerSitemaps,
                            !.curUrls = urls, !.smIndex = urls,
                            !.smLog = Append(@, careerSitemaps[1])]
             ELSE PushAndCheck(f, f.allUrls \o urls)

\* the fetch of a sitemap location settles (lines 27-46, 62-67); smIndex
\* keeps the entries of the index whose nested sitemaps are fetched
SitemapStep(f, resp) ==
    IF resp.kind # "ok" THEN ContinueSitemap(f)
    ELSE LET urls == ParseSitemapXml(resp.xml)
             nestedSitemaps == SelectSeq(urls, EndsWithXml)
             careerSitemaps == Take(SelectSeq(nestedSitemaps, HasCareerKeyword),
                                    MaxNestedSitemaps)
         IN  IF Len(nestedSitemaps) > 0 /\ careerSitemaps # <<>>
             THEN [f EXCEPT !.pc = "nested", !.nestedQueue = careerSitemaps,
                            !.curUrls = urls, !.smIndex = urls,
                            !.smLog = Append(@, careerSitemaps[1])]
             ELSE PushAndCheck(f, f.allUrls \o urls)

\* the fetch of a nested sitemap settles (lines 46-64); nestedGot keeps
\* the entries the nested sitemaps delivered
NestedStep(f, resp) ==
    LET got == IF resp.kind = "ok" THEN ParseSitemapXml(resp.xml) ELSE <<>>
        all == f.allUrls \o got
        rest == Tail(f.nestedQueue)
        g == [f EXCEPT !.nestedGot = @ \cup {got[n] : n \in 1..Len(got)}]
    IN  IF rest = <<>> THEN PushAndCheck(g, all \o f.curUrls)
        ELSE [g EXCEPT !.allUrls = all, !.nestedQueue = rest,
                       !.smLog = Append(@, rest[1])]

\* a fetched page is one the stages accept
Acceptable(out) ==
    ~out.exc /\ out.status < ErrorStatus /\ LooksLikeCareerPage(out.html)

\* sitemap stage, one ranked URL (lines 134-144)
ProbeVerdict_NoStatusCheck(out) ==
    IF out.exc THEN "next"
    ELSE IF LooksLikeCareerPage(out.html) THEN "accept" ELSE "next"

ProbeVerdict(out) ==
    IF out.exc THEN "next"
    ELSE IF out.status >= ErrorStatus THEN "next"
    ELSE IF LooksLikeCareerPage(out.html) THEN "accept" ELSE "next"

\* candidate stage, one settled result (lines 160-168)
CandidateVerdict(out) ==
    IF out.exc THEN "next"
    ELSE IF out.status >= ErrorStatus THEN "next"
    ELSE IF LooksLikeCareerPage(out.html) THEN "accept" ELSE "next"

\* homepage stage, the homepage (lines 172-175, 190-194)
HomeVerdict_NoCatch(out) ==
    IF out.exc THEN "throw"
    ELSE IF out.status < ErrorStatus THEN "links" ELSE "null"

HomeVerdict(out) ==
    IF out.exc THEN "null"
    ELSE IF out.status < ErrorStatus THEN "links" ELSE "null"

\* homepage stage, one harvested link (lines 178-187)
LinkVerdict(out) ==
    IF out.exc THEN "next"
    ELSE IF out.status >= ErrorStatus THEN "next"
    ELSE IF LooksLikeCareerPage(out.html) THEN "accept" ELSE "next"

Settle(f, j, out) ==
    [f EXCEPT !.inflight[j] = out]

ProbeStep(f, out) ==
    LET g == [Settle(f, 1, out) EXCEPT !.sawAcceptable = @ \/ Acceptable(out)]
        v == ProbeVerdict(out)
    IN  CASE v = "accept" -> Found(g, f.sitemapUrls[f.idx], out.html, f.sitemapUrls)
          [] v = "throw"  -> Rejected(g)
          [] OTHER -> IF f.idx < Min(MaxSitemapProbes, Len(f.sitemapUrls))
                      THEN StartProbe(g, f.idx + 1)
                      ELSE EnterBatch(g, 1)

\* the results examined in the order the fetches settled
ExamineBatch_CompletionOrder(f) ==
    LET hits == {n \in 1..Len(f.settled) :
                    CandidateVerdict(f.inflight[f.settled[n]]) = "accept"}
        g == [f EXCEPT !.sawAcceptable =
                          @ \/ \E j \in 1..Len(f.inflight) : Acceptable(f.inflight[j])]
    IN  IF hits # {}
        THEN LET n == CHOOSE x \in hits : \A y \in hits : x <= y
                 j == f.settled[n]
             IN  Found(g, Candidates[f.idx + j - 1], f.inflight[j].html, f.sitemapUrls)
        ELSE EnterBatch(g, f.idx + BatchSize)

\* Promise.allSettled has resolved: the results are examined in batch order
\* (lines 160-170)
ExamineBatch(f) ==
    LET hits == {j \in 1..Len(f.inflight) : CandidateVerdict(f.inflight[j]) = "accept"}
        g == [f EXCEPT !.sawAcceptable =
                          @ \/ \E j \in 1..Len(f.inflight) : Acceptable(f.inflight[j])]
    IN  IF hits # {}
        THEN LET j == CHOOSE x \in hits : \A y \in hits : x <= y IN
             Found(g, Candidates[f.idx + j - 1], f.inflight[j].html, f.sitemapUrls)
        ELSE EnterBatch(g, f.idx + BatchSize)

\* the batch examined as soon as one of its fetches has settled
BatchStep_NoWait(f, j, out) ==
    ExamineBatch([Settle(f, j, out) EXCEPT !.settled = Append(@, j)])

\* one fetch of the batch settles; settled keeps the order of completion.
\* await Promise.allSettled resumes once all have settled (lines 153-160)
BatchStep(f, j, out) ==
    LET g == [Settle(f, j, out) EXCEPT !.settled = Append(@, j)] IN
    IF \E k \in 1..Len(g.inflight) : g.inflight[k] = Pending THEN g
    ELSE ExamineBatch(g)

HomeStep(f, out) ==
    LET g == Settle(f, 1, out)
        v == HomeVerdict(out)
        careerLinks == ExtractCareerLinks(out.html)
    IN  CASE v = "throw" -> Rejected(g)
          [] v = "null"  -> NotFound(g)
          [] OTHER -> IF Take(careerLinks, MaxLinkProbes) = <<>> THEN NotFound(g)
                      ELSE StartLink([g EXCEPT !.links = careerLinks], 1)

LinkStep(f, out) ==
    LET g == [Settle(f, 1, out) EXCEPT !.sawAcceptable = @ \/ Acceptable(out)]
        v == LinkVerdict(out)
    IN  CASE v = "accept" -> Found(g, f.links[f.idx], out.html, f.sitemapUrls)
          [] v = "throw"  -> Rejected(g)
          [] OTHER -> IF f.idx < Min(MaxLinkProbes, Len(f.links))
                      THEN StartLink(g, f.idx + 1)
                      ELSE NotFound(g)

SitemapSettles ==
    /\ fcp.pc = "sitemap"
    /\ \E resp \in SitemapResponses : fcp' = SitemapStep(fcp, resp)
    /\ UNCHANGED NotDisc

NestedSettles ==
    /\ fcp.pc = "nested"
    /\ \E resp \in SitemapResponses : fcp' = NestedStep(fcp, resp)
    /\ UNCHANGED NotDisc

SitemapUrlsReturned ==
    /\ fcp.pc = "resume"
    /\ fcp' = EnterStages(fcp)
    /\ UNCHANGED NotDisc

ProbeSettles ==
    /\ fcp.pc = "probe"
    /\ \E out \in FetchOutcomes(Len(fcp.log), {<<>>}) : fcp' = ProbeStep(fcp, out)
    /\ UNCHANGED NotDisc

BatchFetchSettles(j) ==
    /\ fcp.pc = "batch"
    /\ j \in 1..Len(fcp.inflight)
    /\ fcp.inflight[j] = Pending
    /\ \E out \in FetchOutcomes(Len(fcp.log) - Len(fcp.inflight) + j, {<<>>}) :
          fcp' = BatchStep(fcp, j, out)
    /\ UNCHANGED NotDisc

HomeSettles ==
    /\ fcp.pc = "home"
    /\ \E out \in FetchOutcomes(Len(fcp.log), HomeAnchors) : fcp' = HomeStep(fcp, out)
    /\ UNCHANGED NotDisc

LinkSettles ==
    /\ fcp.pc = "link"
    /\ \E out \in FetchOutcomes(Len(fcp.log), {<<>>}) : fcp' = LinkStep(fcp, out)
    /\ UNCHANGED NotDisc

DiscNext ==
    \/ SitemapSettles
    \/ NestedSettles
    \/ SitemapUrlsReturned
    \/ ProbeSettles
    \/ \E j \in 1..BatchSize : BatchFetchSettles(j)
    \/ HomeSettles
    \/ LinkSettles

(***************************************************************************)
(* CacheService.keyFor(domain).  A string is a sequence of characters.     *)
(***************************************************************************)
MaxInputLen == 2

Chars == {"a", "A", "b", "B", " "}
Inputs == UNION { [1..n -> Chars] : n \in 0..MaxInputLen }

\* String.prototype.toLowerCase
LowerChar(c) == CASE c = "A" -> "a" [] c = "B" -> "b" [] OTHER -> c
LowerCased(str) == [i \in 1..Len(str) |-> LowerChar(str[i])]

\* createHash('sha256').update(str).digest('hex').slice(0, 16): the digest
\* is taken as free of collisions, different strings having different
\* digests
Sha256Hex16(str) == [sha256 |-> str]

KeyFor_NoLowerCase(domain) ==
    [prefix |-> "vacancy:", hex |-> Sha256Hex16(domain)]

KeyFor(domain) ==
    [prefix |-> "vacancy:", hex |-> Sha256Hex16(LowerCased(domain))]

NoKey == [prefix |-> "", hex |-> Sha256Hex16(<<>>)]

KeyIdle ==
    kf = [x |-> <<>>, y |-> <<>>, done |-> FALSE,
          keyX |-> NoKey, keyXAgain |-> NoKey, keyY |-> NoKey]

KeyInit ==
    kf \in [x : Inputs, y : Inputs, done : {FALSE},
            keyX : {NoKey}, keyXAgain : {NoKey}, keyY : {NoKey}]

\* keyFor(x), keyFor(x) once more, and keyFor(y)
KeyForCalls ==
    /\ ~kf.done
    /\ kf' = [kf EXCEPT !.done = TRUE, !.keyX = KeyFor(kf.x),
                        !.keyXAgain = KeyFor(kf.x), !.keyY = KeyFor(kf.y)]
    /\ UNCHANGED NotKey

(***************************************************************************)
(* detectPlatform(url) and detectPlatformFromHtml(html).  A text is a      *)
(* sequence of pieces; a pattern is looked for inside each piece.          *)
(***************************************************************************)
MaxUrlPieces == 1
MaxHtmlPieces == 2

UrlPieces ==
    { "acme.nl/careers", "acme.recruitee.com", "Acme.Recruitee.COM",
      "boards.greenhouse.io", "jobs.lever.co", "apply.workable.com",
      "acme.recruitee.com/?ref=lever.co" }
HtmlPieces ==
    { "<h1>Jobs</h1>", "recruitee", "d3ii2lldyojfer.cloudfront.net",
      "greenhouse-jobboard", "boards.greenhouse.io", "lever-jobs",
      "Lever-Jobs", "jobs.lever.co", "workable-careers" }

PageUrls == UNION { [1..n -> UrlPieces] : n \in 0..MaxUrlPieces }
PageHtmls == UNION { [1..n -> HtmlPieces] : n \in 0..MaxHtmlPieces }

LowerPiece(p) ==
    CASE p = "Acme.Recruitee.COM" -> "acme.recruitee.com"
      [] p = "Lever-Jobs" -> "lever-jobs"
      [] p = "<h1>Jobs</h1>" -> "<h1>jobs</h1>"
      [] OTHER -> p

\* the patterns of detectPlatform and detectPlatformFromHtml that occur in a
\* piece, character for character
PatternsIn(p) ==
    CASE p = "acme.recruitee.com" -> {"recruitee.com", "recruitee"}
      [] p = "acme.recruitee.com/?ref=lever.co" ->
             {"recruitee.com", "recruitee", "lever.co"}
      [] p = "boards.greenhouse.io" -> {"greenhouse.io", "boards.greenhouse.io"}
      [] p = "jobs.lever.co" -> {"lever.co", "jobs.lever.co"}
      [] p = "apply.workable.com" -> {"workable.com"}
      [] p \in {"recruitee", "d3ii2lldyojfer.cloudfront.net",
                "greenhouse-jobboard", "lever-jobs", "workable-careers"} -> {p}
      [] OTHER -> {}

\* text.toLowerCase()
LowerText(text) == [i \in 1..Len(text) |-> LowerPiece(text[i])]
\* text.includes(pattern)
Includes(text, pattern) ==
    \E i \in 1..Len(text) : pattern \in PatternsIn(text[i])

\* the Platform value null
NoPlatform == "none"

DetectPlatform(url) ==
    LET lower == LowerText(url) IN
    IF Includes(lower, "recruitee.com") THEN "recruitee"
    ELSE IF Includes(lower, "greenhouse.io") THEN "greenhouse"
    ELSE IF Includes(lower, "lever.co") THEN "lever"
    ELSE IF Includes(lower, "workable.com") THEN "workable"
    ELSE NoPlatform

DetectPlatformFromHtml(html) ==
    LET lower == LowerText(html) IN
    IF Includes(lower, "recruitee") \/ Includes(lower, "d3ii2lldyojfer.cloudfront.net")
    THEN "recruitee"
    ELSE IF Includes(lower, "greenhouse-jobboard") \/ Includes(lower, "boards.greenhouse.io")
    THEN "greenhouse"
    ELSE IF Includes(lower, "lever-jobs") \/ Includes(lower, "jobs.lever.co")
    THEN "lever"
    ELSE IF Includes(lower, "workable-careers") THEN "workable"
    ELSE NoPlatform

\* the markup looked at before the URL
PlatformOf_HtmlFirst(url, html) ==
    IF DetectPlatformFromHtml(html) # NoPlatform THEN DetectPlatformFromHtml(html)
    ELSE DetectPlatform(url)

\* this.detectPlatform(url) || this.detectPlatformFromHtml(html)
PlatformOf(url, html) ==
    IF DetectPlatform(url) # NoPlatform THEN DetectPlatform(url)
    ELSE DetectPlatformFromHtml(html)

PlatIdle == plat = [url |-> <<>>, html |-> <<>>, done |-> FALSE, platform |-> NoPlatform]

PlatInit ==
    plat \in [url : PageUrls, html : PageHtmls, done : {FALSE}, platform : {NoPlatform}]

\* a page is accepted and its platform computed
PlatformDetected ==
    /\ ~plat.done
    /\ plat' = [plat EXCEPT !.done = TRUE, !.platform = PlatformOf(plat.url, plat.html)]
    /\ UNCHANGED NotPlat

(***************************************************************************)
(* ContentExtractor and ChatSyncOrchestrator.extractPage(html, url).  A    *)
(* text is known by its first TruncateLimit characters (head), by what     *)
(* follows them (tail) and by its length; an html document by its <title>, *)
(* first <h1>, meta description, <main> element and <body>.                *)
(***************************************************************************)
TruncateLimit == 3000

Text(head, tail, len) == [head |-> head, tail |-> tail, len |-> len]
EmptyText == Text("", "", 0)

\* text.substring(0, n)
Substring(t, n) ==
    IF n >= t.len THEN t
    ELSE Text(t.head, IF n <= TruncateLimit THEN "" ELSE t.tail, n)

\* an element: the markdown its markup converts to, the position right after
\* the last ". " among its first TruncateLimit characters (0: none) and the
\* page type its first 500 characters hint at
Part(md, cut, hint) == [md |-> md, cut |-> cut, hint |-> hint]
NoPart == [none |-> TRUE]
Parts ==
    { Part(EmptyText, 0, "none"),
      Part(Text("s", "", 49), 0, "none"),
      Part(Text("e", "", 50), 0, "pricing"),
      Part(Text("A", "", 60), 0, "none"),
      Part(Text("L", "1", 3500), 2000, "none"),
      Part(Text("L", "2", 3600), 2000, "none"),
      Part(Text("M", "1", 3001), 100, "none") }
MainParts == {NoPart, Part(Text("A", "", 60), 0, "none"),
              Part(Text("B", "", 70), 0, "blog")}

NoTag == [none |-> TRUE]
Titles == {NoTag, [text |-> ""], [text |-> "Contact us"], [text |-> "Acme"]}
Headings == {NoTag, [text |-> "Welcome"]}
MetaDescriptions == {NoTag, [text |-> ""], [text |-> "What we do"]}

Documents ==
    [title : Titles, h1 : Headings, meta : MetaDescriptions,
     main : MainParts, body : Parts]

\* url strings: malformed ones make new URL(url) throw
PagePaths == {"/", "/contact", "/x"}
DocUrls == [bad : {FALSE}, path : PagePaths] \cup {[bad |-> TRUE, path |-> ""]}

\* extractMainContent: <main>, else <body> (lines 189-199)
ExtractMainContent(html) ==
    IF html.main # NoPart THEN html.main ELSE html.body

\* htmlToMarkdown: the text left when the markup is converted and stripped
HtmlToMarkdown(part) == part.md

\* truncateContent(content, 3000) (lines 319-329)
TruncateContent(part) ==
    LET content == HtmlToMarkdown(part) IN
    IF content.len <= TruncateLimit THEN content
    ELSE IF 2 * part.cut > TruncateLimit THEN Substring(content, part.cut)
    ELSE Substring(content, TruncateLimit)

\* extractTitle (lines 300-314)
ExtractTitle(html) ==
    IF html.title # NoTag /\ html.title.text # "" THEN html.title.text
    ELSE IF html.h1 # NoTag /\ html.h1.text # "" THEN html.h1.text
    ELSE "Untitled"

\* extractMetaDescription (lines 291-295)
NoDescription == [null |-> TRUE]
ExtractMetaDescription(html) ==
    IF html.meta = NoTag \/ html.meta.text = "" THEN NoDescription ELSE html.meta

\* createContentHash (lines 334-336); distinct contents have distinct digests
CreateContentHash(content) == Sha256Hex16(content)

\* classifyPage (lines 341-365): new URL(url) throws on a malformed url
ClassifyPage(url, title, part) ==
    IF url.bad THEN [exc |-> TRUE, val |-> "none"]
    ELSE [exc |-> FALSE,
          val |-> CASE url.path = "/" -> "home"
                    [] url.path = "/contact" -> "contact"
                    [] title = "Contact us" -> "contact"
                    [] part.hint # "none" -> part.hint
                    [] OTHER -> "other"]

\* extractPage (lines 262-279)
ExtractPage(html, url) ==
    LET mainContent == ExtractMainContent(html)
        content == TruncateContent(mainContent)
        title == ExtractTitle(html)
        pageType == ClassifyPage(url, title, mainContent)
    IN  IF pageType.exc THEN [exc |-> TRUE, page |-> NoPart]
        ELSE [exc |-> FALSE,
              page |-> [url |-> url, title |-> title, content |-> content,
                        meta_description |-> ExtractMetaDescription(html),
                        page_type |-> pageType.val,
                        content_hash |-> CreateContentHash(content)]]

NoDocument ==
    [title |-> NoTag, h1 |-> NoTag, meta |-> NoTag, main |-> NoPart,
     body |-> Part(EmptyText, 0, "none")]
NotExtracted == [exc |-> FALSE, page |-> NoPart]

PageIdle ==
    xp = [html |-> NoDocument, url |-> [bad |-> FALSE, path |-> "/"],
          done |-> FALSE, out |-> NotExtracted]

PageInit ==
    xp \in [html : Documents, url : DocUrls, done : {FALSE}, out : {NotExtracted}]

ExtractPageCalled ==
    /\ ~xp.done
    /\ xp' = [xp EXCEPT !.done = TRUE, !.out = ExtractPage(xp.html, xp.url)]
    /\ UNCHANGED NotPage

(***************************************************************************)
(* Orchestrator.scrape(domain, detailLimit).  The site behind the domain   *)
(* (what findCareerPage gives for it) and detailLimit are fixed for a      *)
(* behaviour; what the platform API, the AI service and the page fetches   *)
(* do is open at every call.  The primary store, when configured, is       *)
(* healthy.  One call runs at a time.                                      *)
(***************************************************************************)
MaxClockSteps == 2

\* the clock moves by half the default ttl
ClockStep == (DefaultTtl * MsPerSecond) \div 2

Domain == <<"a">>
DetailLimits == {0, 2}
DetailSuffix(detailLimit) == IF detailLimit > 0 THEN <<":details:2">> ELSE <<>>

\* this.cache.keyFor(domain + (detailLimit > 0 ? `:details:${detailLimit}` : ''))
VacancyKey(domain, detailLimit) == KeyFor(domain \o DetailSuffix(detailLimit))
OrchKey(detailLimit) == VacancyKey(Domain, detailLimit)
\* the maxPages argument of ChatSyncOrchestrator.scrape
MaxPagesArgs == {2}
\* `chatsync:${domain.toLowerCase()}:${maxPages}`
ChatSyncKey(domain, maxPages) ==
    [prefix |-> "chatsync:",
     hex |-> [plain |-> LowerCased(domain) \o <<":", maxPages>>]]
CsKey(maxPages) == ChatSyncKey(Domain, maxPages)
OrchKeys ==
    {OrchKey(dl) : dl \in DetailLimits} \cup {CsKey(mp) : mp \in MaxPagesArgs}

\* what findCareerPage(domain) gives: null, or a page with its url, html,
\* platform and the department links extractDepartmentLinks finds in it
NoPage == [found |-> FALSE, url |-> <<>>, html |-> <<>>, platform |-> NoPlatform,
           deptLinks |-> 0]
CareerPage(url, html, deptLinks) ==
    [found |-> TRUE, url |-> url, html |-> html,
     platform |-> PlatformOf(url, html), deptLinks |-> deptLinks]
Sites ==
    { NoPage,
      CareerPage(<<"acme.nl/careers">>, <<"<h1>Jobs</h1>">>, 0),
      CareerPage(<<"acme.nl/careers">>, <<"<h1>Jobs</h1>">>, 6),
      CareerPage(<<"acme.nl/careers">>, <<"recruitee">>, 0),
      CareerPage(<<"acme.recruitee.com">>, <<"<h1>Jobs</h1>">>, 0),
      CareerPage(<<"boards.greenhouse.io">>, <<"<h1>Jobs</h1>">>, 6) }

\* a vacancy: its id, whether its url differs from the career page's, and
\* whether details were merged into it
Vacancy(id, ownPage) == [id |-> id, ownPage |-> ownPage, hasDetails |-> FALSE]
FiveVacancies == [i \in 1..5 |-> Vacancy(i, TRUE)]
\* vacancy lists the services may deliver
MainPageLists == {<<>>, <<Vacancy(1, FALSE), Vacancy(2, TRUE)>>, FiveVacancies}
DeptPageLists == {<<Vacancy(2, TRUE), Vacancy(6, TRUE)>>}
OfferLists == {<<>>, <<Vacancy(1, TRUE)>>}

MaxDeptPages == 5
FewVacancies == 5

\* RecruiteeParser.extractCompanyId: the url matches
\* /https?:\/\/([^.]+)\.recruitee\.com/
HasCompanyId(url) == \E i \in 1..Len(url) : url[i] = "acme.recruitee.com"

\* parseWithPlatform(platform, url): null when no client exists for the
\* platform; the recruitee client throws without a company id or when the
\* API call fails, else it gives the offers, possibly none
NoClient == [client |-> FALSE, list |-> <<>>]
ParseWithPlatform(platform, url, api) ==
    IF platform # "recruitee" THEN Ok(NoClient)
    ELSE IF ~HasCompanyId(url) \/ api.exc THEN Threw
    ELSE Ok([client |-> TRUE, list |-> api.val])

\* if (platformVacancies): an array, even an empty one, is truthy
Truthy(platformVacancies) == platformVacancies.client

\* the new vacancies of a department page are pushed (lines 86-93)
RECURSIVE PushNew(_, _)
PushNew(vacancies, more) ==
    IF more = <<>> THEN vacancies
    ELSE IF \E i \in 1..Len(vacancies) : vacancies[i].id = Head(more).id
         THEN PushNew(vacancies, Tail(more))
         ELSE PushNew(Append(vacancies, Head(more)), Tail(more))

NoResponse == [none |-> TRUE]
Response(vacancies, page, method, t) ==
    [domain |-> Domain, hasVacancies |-> Len(vacancies) > 0,
     vacancyCount |-> Len(vacancies), vacancies |-> vacancies,
     platform |-> page.platform, careerPageUrl |-> page.url, method |-> method,
     cached |-> FALSE, scrapedAt |-> t]

\* a call not yet made; site and detailLimit are kept from call to call
IdleScrape(site, detailLimit) ==
    [pc |-> "idle", site |-> site, detailLimit |-> detailLimit,
     startedAt |-> 0, primaryFailed |-> FALSE, fromCache |-> FALSE,
     careerPage |-> NoPage, haveVacancies |-> FALSE, vacancies |-> <<>>,
     method |-> "ai", idx |-> 0, log |-> <<>>, pages |-> <<>>, failed |-> {},
     outcome |-> "none", thrownBy |-> "none", response |-> NoResponse]

OrchIdle == orch = IdleScrape(NoPage, 0)
OrchInit == orch \in {IdleScrape(site, dl) : site \in Sites, dl \in DetailLimits}

\* what a step of a call does to the call and to the cache
Effect(o, mem, store, ls) == [o |-> o, mem |-> mem, store |-> store, ls |-> ls]
NoStore(o) == Effect(o, memoryCache, redisStore, lastSet)

\* a failing run that stores a not-found response before it rejects
ScrapeThrows_Stores(o, by) ==
    LET response == Response(<<>>, NoPage, "ai", now)
        r == CacheSet(redisOn, memoryCache, redisStore, OrchKey(o.detailLimit),
                      response, Undefined, now, "ok")
    IN  Effect([o EXCEPT !.pc = "done", !.outcome = "thrown", !.thrownBy = by],
               r.mem, r.store,
               [lastSet EXCEPT ![OrchKey(o.detailLimit)] =
                   [data |-> response, at |-> now, ttl |-> Expiry(Undefined),
                    local |-> r.local]])

\* parseWithPlatform or aiExtractor.extract rejects and scrape, which has no
\* try around them, rejects with it
ScrapeThrows(o, by) ==
    NoStore([o EXCEPT !.pc = "done", !.outcome = "thrown", !.thrownBy = by])

\* the response is returned without being stored
StoreAndReturn_NoStore(o, key, response, fault) ==
    NoStore([o EXCEPT !.pc = "done", !.outcome = "returned", !.response = response])

\* await this.cache.set(cacheKey, response); return response
StoreAndReturn(o, key, response, fault) ==
    LET r == CacheSet(redisOn, memoryCache, redisStore, key, response, Undefined,
                      now, fault)
    IN  Effect([o EXCEPT !.pc = "done", !.outcome = "returned",
                         !.response = response,
                         !.primaryFailed = @ \/ fault # "ok"],
               r.mem, r.store,
               [lastSet EXCEPT ![key] = [data |-> response, at |-> now,
                                         ttl |-> Expiry(Undefined), local |-> r.local]])

PageEntry(kind, n) == [kind |-> kind, n |-> n]

\* the detail loop from vacancy `from` on: vacancies without a page of their
\* own are skipped; after the loop the response is built, stored and
\* returned (lines 101-143)
DetailsFrom(o, from, fault) ==
    LET last == Min(o.detailLimit, Len(o.vacancies))
        todo == {i \in from..last : o.vacancies[i].ownPage}
    IN  IF todo # {}
        THEN LET i == CHOOSE x \in todo : \A y \in todo : x <= y IN
             NoStore([o EXCEPT !.pc = "detail", !.idx = i,
                               !.pages = Append(@, PageEntry("detail", i))])
        ELSE StoreAndReturn(o, OrchKey(o.detailLimit),
                            Response(o.vacancies, o.careerPage, o.method, now), fault)

\* scrape is called: the cache is asked first (lines 22-32)
ScrapeStart(o, fault) ==
    LET r == CacheGet(redisOn, memoryCache, redisStore, OrchKey(o.detailLimit),
                      now, fault)
        fresh == [IdleScrape(o.site, o.detailLimit) EXCEPT
                     !.startedAt = now, !.primaryFailed = fault # "ok"]
    IN  IF r.ret # Null
        THEN Effect([fresh EXCEPT !.pc = "done", !.outcome = "returned",
                                  !.fromCache = TRUE,
                                  !.response = [r.ret EXCEPT !.cached = TRUE]],
                    r.mem, redisStore, lastSet)
        ELSE Effect([fresh EXCEPT !.pc = "discovery",
                                  !.log = Append(@, "discovery")],
                    r.mem, redisStore, lastSet)

\* findCareerPage has settled (lines 32-57, 65-67)
DiscoveryStep(o, fault) ==
    LET g == [o EXCEPT !.careerPage = o.site] IN
    IF ~g.careerPage.found
    THEN StoreAndReturn(g, OrchKey(o.detailLimit), Response(<<>>, NoPage, "ai", now), fault)
    ELSE IF g.careerPage.platform # NoPlatform
         THEN NoStore([g EXCEPT !.pc = "platform", !.log = Append(@, "platform")])
         ELSE NoStore([g EXCEPT !.pc = "ai", !.log = Append(@, "ai")])

\* parseWithPlatform has settled (lines 57-67)
PlatformStep(o, api, fault) ==
    LET r == ParseWithPlatform(o.careerPage.platform, o.careerPage.url, api) IN
    IF r.exc THEN ScrapeThrows(o, "platform")
    ELSE IF Truthy(r.val)
    THEN DetailsFrom([o EXCEPT !.haveVacancies = TRUE, !.vacancies = r.val.list,
                               !.method = "parser"], 1, fault)
    ELSE NoStore([o EXCEPT !.pc = "ai", !.log = Append(@, "ai")])

\* aiExtractor.extract on the career page has settled (lines 67-81)
AiStep(o, out, fault) ==
    IF out.exc THEN ScrapeThrows(o, "ai")
    ELSE LET g == [o EXCEPT !.haveVacancies = TRUE, !.vacancies = out.val,
                            !.method = "ai"]
         IN  IF Len(out.val) < FewVacancies /\ o.careerPage.deptLinks > 0
             THEN NoStore([g EXCEPT !.pc = "dept", !.idx = 1,
                                    !.pages = Append(@, PageEntry("dept", 1))])
             ELSE DetailsFrom(g, 1, fault)

\* a failure of a department page leaves scrape
DeptStep_NoCatch(o, out, fault) ==
    IF out.exc THEN ScrapeThrows([o EXCEPT !.failed = @ \cup {"dept"}], "dept")
    ELSE LET g == [o EXCEPT !.vacancies = PushNew(@, out.val)] IN
         IF o.idx < Min(o.careerPage.deptLinks, MaxDeptPages)
         THEN NoStore([g EXCEPT !.idx = @ + 1,
                                !.pages = Append(@, PageEntry("dept", o.idx + 1))])
         ELSE DetailsFrom(g, 1, fault)

\* one department page: scraper.fetch and aiExtractor.extract have settled,
\* either of them possibly by throwing (lines 81-98)
DeptStep(o, out, fault) ==
    LET g == IF out.exc THEN [o EXCEPT !.failed = @ \cup {"dept"}]
             ELSE [o EXCEPT !.vacancies = PushNew(@, out.val)]
    IN  IF o.idx < Min(o.careerPage.deptLinks, MaxDeptPages)
        THEN NoStore([g EXCEPT !.idx = @ + 1,
                               !.pages = Append(@, PageEntry("dept", o.idx + 1))])
        ELSE DetailsFrom(g, 1, fault)

\* one vacancy page: scraper.fetch and aiExtractor.extractDetails have
\* settled, either of them possibly by throwing (lines 106-125)
DetailStep(o, out, fault) ==
    LET g == IF out.exc THEN [o EXCEPT !.failed = @ \cup {"detail"}]
             ELSE [o EXCEPT !.vacancies[o.idx].hasDetails = TRUE]
    IN  DetailsFrom(g, o.idx + 1, fault)

Apply(e) ==
    /\ orch' = e.o
    /\ memoryCache' = e.mem
    /\ redisStore' = e.store
    /\ lastSet' = e.ls
    /\ UNCHANGED <<redisOn, now, sets, cacheOp, cs, NotOrch>>

PlatformOutcomes == {Threw} \cup {Ok(l) : l \in OfferLists}
MainPageOutcomes == {Threw} \cup {Ok(l) : l \in MainPageLists}
DeptPageOutcomes == {Threw} \cup {Ok(l) : l \in DeptPageLists}
DetailOutcomes == {Threw, Ok(<<>>)}

ScrapeCalled ==
    /\ orch.pc \in {"idle", "done"}
    /\ cs.pc \in {"idle", "done"}
    /\ \E fault \in Healthy : Apply(ScrapeStart(orch, fault))

DiscoverySettles ==
    /\ orch.pc = "discovery"
    /\ \E fault \in Healthy : Apply(DiscoveryStep(orch, fault))

PlatformSettles ==
    /\ orch.pc = "platform"
    /\ \E api \in PlatformOutcomes, fault \in Healthy :
          Apply(PlatformStep(orch, api, fault))

AiSettles ==
    /\ orch.pc = "ai"
    /\ \E out \in MainPageOutcomes, fault \in Healthy :
          Apply(AiStep(orch, out, fault))

DeptPageSettles ==
    /\ orch.pc = "dept"
    /\ \E out \in DeptPageOutcomes, fault \in Healthy :
          Apply(DeptStep(orch, out, fault))

DetailPageSettles ==
    /\ orch.pc = "detail"
    /\ \E out \in DetailOutcomes, fault \in Healthy :
          Apply(DetailStep(orch, out, fault))

\* the clock advances between two calls
ClockAdvances ==
    /\ orch.pc \in {"idle", "done"}
    /\ now < MaxClockSteps * ClockStep
    /\ now' = now + ClockStep
    /\ UNCHANGED <<redisOn, memoryCache, redisStore, sets, cacheOp, lastSet,
                   orch, cs, NotOrch>>

(***************************************************************************)
(* ChatSyncOrchestrator.scrape(domain, maxPages), called at most once and  *)
(* before the first Orchestrator.scrape: the two share the cache only, on  *)
(* different keys, so every interleaving of them comes to such a sequence. *)
(***************************************************************************)
\* how many URLs filterAndPrioritize leaves
FilteredUrlCounts == {0, 3}
MinContentLength == 50

\* the n-th target URL; filterAndPrioritize has dropped the malformed ones
\* (lines 310-317)
TargetUrl(n) == [bad |-> FALSE, path |-> "/x", n |-> n]

\* documents a target URL may serve
CrawlDocument(body) ==
    [title |-> NoTag, h1 |-> NoTag, meta |-> NoTag, main |-> NoPart, body |-> body]
CrawlDocuments ==
    { CrawlDocument(Part(Text("s", "", 49), 0, "none")),
      CrawlDocument(Part(Text("e", "", 50), 0, "pricing")),
      CrawlDocument(Part(Text("L", "1", 3500), 2000, "none")),
      CrawlDocument(Part(Text("L", "2", 3600), 2000, "none")) }

\* what scraper.fetchWithHttp(url) may give (line 217)
PageOutcomes ==
    { [exc |-> TRUE, status |-> 0, html |-> NoDocument],
      [exc |-> FALSE, status |-> 404,
       html |-> CrawlDocument(Part(Text("A", "", 60), 0, "none"))] }
    \cup [exc : {FALSE}, status : {200}, html : CrawlDocuments]

CsResponse(pages, t) ==
    [domain |-> Domain, pageCount |-> Len(pages), pages |-> pages,
     cached |-> FALSE, scrapedAt |-> t]

\* targets: targetUrls.length; pages: the indices of the URLs whose
\* iteration has started; kept: the array pages; delays: the indices after
\* whose iteration the rate-limit delay has elapsed; dupes: the indices
\* skipped for a content hash seen before
IdleChatSync(maxPages, urls) ==
    [pc |-> "idle", maxPages |-> maxPages, urls |-> urls, targets |-> 0,
     idx |-> 0, pages |-> <<>>, kept |-> <<>>, seenHashes |-> {},
     delays |-> {}, dupes |-> {}, failed |-> FALSE, fromCache |-> FALSE,
     outcome |-> "none", response |-> NoResponse]

CsIdle == cs = IdleChatSync(2, 0)
CsInit == cs \in {IdleChatSync(mp, n) : mp \in MaxPagesArgs, n \in FilteredUrlCounts}

\* await this.cache.set(cacheKey, response); return response (lines 250-259)
CsStoreAndReturn(c, fault) ==
    LET response == CsResponse(c.kept, now)
        key == CsKey(c.maxPages)
        r == CacheSet(redisOn, memoryCache, redisStore, key, response, Undefined,
                      now, fault)
    IN  Effect([c EXCEPT !.pc = "done", !.outcome = "returned", !.response = response],
               r.mem, r.store,
               [lastSet EXCEPT ![key] = [data |-> response, at |-> now,
                                         ttl |-> Expiry(Undefined), local |-> r.local]])

\* scrape is called: the cache is asked first (lines 178-191)
CsStart(c, fault) ==
    LET r == CacheGet(redisOn, memoryCache, redisStore, CsKey(c.maxPages), now, fault) IN
    IF r.ret # Null
    THEN Effect([c EXCEPT !.pc = "done", !.outcome = "returned", !.fromCache = TRUE,
                          !.response = [r.ret EXCEPT !.cached = TRUE]],
                r.mem, redisStore, lastSet)
    ELSE Effect([c EXCEPT !.pc = "urls"], r.mem, redisStore, lastSet)

\* the target URLs are known: filteredUrls.slice(0, maxPages) (lines 191-213)
CsUrlsStep(c, fault) ==
    LET g == [c EXCEPT !.targets = Min(c.urls, c.maxPages)] IN
    IF g.targets = 0 THEN CsStoreAndReturn(g, fault)
    ELSE NoStore([g EXCEPT !.pc = "page", !.idx = 1, !.pages = <<1>>])

\* a page pushed: seenHashes.add, pages.push and the delay (lines 238-244)
PushPage(c, page) ==
    [c EXCEPT !.seenHashes = @ \cup {page.content_hash},
              !.kept = Append(@, page),
              !.delays = IF c.idx < c.targets THEN @ \cup {c.idx} ELSE @]

\* the loop body without the test of seenHashes
CsPageBody_NoDedupe(c, out) ==
    LET x == ExtractPage(out.html, TargetUrl(c.idx)) IN
    IF out.exc THEN [c EXCEPT !.failed = TRUE]
    ELSE IF out.status >= ErrorStatus THEN c
    ELSE IF x.exc THEN [c EXCEPT !.failed = TRUE]
    ELSE IF x.page.content.len < MinContentLength THEN c
    ELSE PushPage(c, x.page)

\* the body of the loop for one fetched page (lines 215-247)
CsPageBody(c, out) ==
    LET x == ExtractPage(out.html, TargetUrl(c.idx)) IN
    IF out.exc THEN [c EXCEPT !.failed = TRUE]
    ELSE IF out.status >= ErrorStatus THEN c
    ELSE IF x.exc THEN [c EXCEPT !.failed = TRUE]
    ELSE IF x.page.content.len < MinContentLength THEN c
    ELSE IF x.page.content_hash \in c.seenHashes
         THEN [c EXCEPT !.dupes = @ \cup {c.idx}]
    ELSE PushPage(c, x.page)

\* one page of the loop (lines 213-248)
CsPageStep(c, out, fault) ==
    LET g == CsPageBody(c, out)
    IN  IF c.idx < c.targets
        THEN NoStore([g EXCEPT !.idx = @ + 1, !.pages = Append(@, c.idx + 1)])
        ELSE CsStoreAndReturn(g, fault)

ApplyCs(e) ==
    /\ cs' = e.o
    /\ memoryCache' = e.mem
    /\ redisStore' = e.store
    /\ lastSet' = e.ls
    /\ UNCHANGED <<redisOn, now, sets, cacheOp, orch, NotOrch>>

CsScrapeCalled ==
    /\ cs.pc = "idle"
    /\ orch.pc = "idle"
    /\ \E fault \in Healthy : ApplyCs(CsStart(cs, fault))

CsUrlsSettle ==
    /\ cs.pc = "urls"
    /\ \E fault \in Healthy : ApplyCs(CsUrlsStep(cs, fault))

CsPageSettles ==
    /\ cs.pc = "page"
    /\ \E out \in PageOutcomes, fault \in Healthy :
          ApplyCs(CsPageStep(cs, out, fault))

OrchCacheInit ==
    /\ redisOn \in BOOLEAN
    /\ memoryCache = [k \in OrchKeys |-> NoEntry]
    /\ redisStore = [k \in OrchKeys |-> NoEntry]
    /\ now = 0
    /\ sets = 0
    /\ cacheOp = NoOp
    /\ lastSet = [k \in OrchKeys |-> NoEntry]

OrchNext ==
    \/ ScrapeCalled
    \/ DiscoverySettles
    \/ PlatformSettles
    \/ AiSettles
    \/ DeptPageSettles
    \/ DetailPageSettles
    \/ ClockAdvances
    \/ CsScrapeCalled
    \/ CsUrlsSettle
    \/ CsPageSettles

(***************************************************************************)
(* DiscoveryService.extractDepartmentLinks(html, baseUrl).  A URL is its   *)
(* hostname and what follows it, each a sequence of pieces of text; the    *)
(* text of the URL is the scheme followed by the pieces in order.          *)
(***************************************************************************)
MaxAnchors == 2

Url(host, rest) == [host |-> host, rest |-> rest, bad |-> FALSE]
\* the href values of <a> tags: relative (no host), absolute, or malformed
\* (new URL(href, baseUrl) throws)
RelTech == Url(<<>>, <<"/", "tech">>)
SubSales == Url(<<"jobs.", "d", ".nl">>, <<"/", "sales">>)
WwwTech == Url(<<"www.", "d", ".nl">>, <<"/", "tech">>)
OwnAbout == Url(<<"d", ".nl">>, <<"/", "about">>)
ElsewhereData == Url(<<"evil", ".com">>, <<"/", "data">>)
ElsewhereRef == Url(<<"evil", ".com">>, <<"/", "tech", "?ref=", "d", ".nl">>)
Malformed == [host |-> <<"[">>, rest |-> <<"/", "tech">>, bad |-> TRUE]
DeptHrefs == {RelTech, SubSales, WwwTech, OwnAbout, ElsewhereData, ElsewhereRef,
              Malformed}
BaseUrls == {Url(<<"www.", "d", ".nl">>, <<"/", "careers">>),
             Url(<<"d", ".nl">>, <<"/", "careers">>)}

\* the pieces that are one of the departmentKeywords (lines 230-237)
DepartmentKeywords == {"tech", "sales", "data"}

UrlText(u) == <<"https://">> \o u.host \o u.rest
HrefText(h) == IF h.host = <<>> THEN h.rest ELSE UrlText(h)

\* text.includes(pattern), both sequences of pieces
IncludesText(text, pattern) ==
    \E i \in 0..(Len(text) - Len(pattern)) :
        \A j \in 1..Len(pattern) : text[i + j] = pattern[j]

\* hostname.replace('www.', ''): the first occurrence is removed
RECURSIVE StripWww(_)
StripWww(host) ==
    IF host = <<>> THEN <<>>
    ELSE IF Head(host) = "www." THEN Tail(host)
    ELSE <<Head(host)>> \o StripWww(Tail(host))

\* new URL(href, baseUrl): a relative href takes the hostname of the base
Resolve(h, base) ==
    IF h.host = <<>> THEN Url(base.host, h.rest) ELSE h

\* fullUrl.includes(new URL(baseUrl).hostname.replace('www.', '')) (line 248)
IsInternal(fullUrl, base) ==
    IncludesText(UrlText(fullUrl), StripWww(base.host))

\* the loop over the anchors (lines 240-255)
RECURSIVE CollectLinks(_, _)
CollectLinks(hrefs, base) ==
    IF hrefs = <<>> THEN <<>>
    ELSE LET h == Head(hrefs)
             lower == HrefText(h)
             hasKeyword == \E i \in 1..Len(lower) : lower[i] \in DepartmentKeywords
             keep == /\ hasKeyword
                     /\ ~h.bad
                     /\ IsInternal(Resolve(h, base), base)
         IN  (IF keep THEN <<Resolve(h, base)>> ELSE <<>>)
             \o CollectLinks(Tail(hrefs), base)

\* return [...new Set(links)] (line 257)
ExtractDepartmentLinks(hrefs, base) == Dedup(CollectLinks(hrefs, base), {})

AnchorLists == UNION {[1..n -> DeptHrefs] : n \in 0..MaxAnchors}

LinksIdle ==
    edl = [hrefs |-> <<>>, base |-> Url(<<"d", ".nl">>, <<"/", "careers">>),
           done |-> FALSE, links |-> <<>>]

LinksInit ==
    edl \in [hrefs : AnchorLists, base : BaseUrls, done : {FALSE}, links : {<<>>}]

ExtractDepartmentLinksCalled ==
    /\ ~edl.done
    /\ edl' = [edl EXCEPT !.done = TRUE,
                          !.links = ExtractDepartmentLinks(edl.hrefs, edl.base)]
    /\ UNCHANGED NotLinks

(***************************************************************************)
(* LinkedInAdsOrchestrator.scrape(accountOwner, country, maxAds) and the  *)
(* cache key of GoogleAdsOrchestrator.scrape(domain, region).  Calls       *)
(* follow one another on one CacheService with a healthy primary store.    *)
(***************************************************************************)
MaxLiCalls == 2

AccountOwners == {<<"A">>, <<"a">>, <<"b">>}
\* the country argument; "" stands for undefined
Countries == {"", "NL"}
MaxAdsArgs == {1, 2}
\* searchResult.ads.length
SearchAdCounts == {0, 2}

\* `linkedinads:${accountOwner.toLowerCase()}:${country || 'all'}` (line 389)
LinkedInKey(accountOwner, country) ==
    [prefix |-> "linkedinads:",
     hex |-> [plain |-> LowerCased(accountOwner)
                        \o <<":", IF country = "" THEN "all" ELSE country>>]]

\* `googleads:${domain.toLowerCase()}:${region.toLowerCase()}`
GoogleAdsKey(domain, region) ==
    [prefix |-> "googleads:",
     hex |-> [plain |-> LowerCased(domain) \o <<":">> \o LowerCased(region)]]

LiKeys == {LinkedInKey(a, c) : a \in AccountOwners, c \in Countries}

\* ads: the array ads, each entry an ad id and whether its detail page was
\* read; delays: the indices after which the rate-limit delay has elapsed;
\* producer: for each key the arguments of the run whose response it holds
LiArgs(accountOwner, country, maxAds) ==
    [accountOwner |-> accountOwner, country |-> country, maxAds |-> maxAds]
NoArgs == [none |-> TRUE]

LiResponse(args, ads, t) ==
    [accountOwner |-> args.accountOwner, country |-> args.country,
     adCount |-> Len(ads), ads |-> ads, cached |-> FALSE, scrapedAt |-> t]

AdsIdle ==
    li = [pc |-> "idle", calls |-> 0, args |-> NoArgs, toFetch |-> 0, idx |-> 0,
          ads |-> <<>>, delays |-> {}, fromCache |-> FALSE, outcome |-> "none",
          response |-> NoResponse, servedArgs |-> NoArgs,
          producer |-> [k \in LiKeys |-> NoArgs]]

AdsInit == AdsIdle

AdsCacheInit ==
    /\ redisOn \in BOOLEAN
    /\ memoryCache = [k \in LiKeys |-> NoEntry]
    /\ redisStore = [k \in LiKeys |-> NoEntry]
    /\ now = 0
    /\ sets = 0
    /\ cacheOp = NoOp
    /\ lastSet = [k \in LiKeys |-> NoEntry]

\* await this.cache.set(cacheKey, response); return response (lines 415-416,
\* 476-477)
LiStoreAndReturn(l, ads, fault) ==
    LET response == LiResponse(l.args, ads, now)
        key == LinkedInKey(l.args.accountOwner, l.args.country)
        r == CacheSet(redisOn, memoryCache, redisStore, key, response, Undefined,
                      now, fault)
    IN  Effect([l EXCEPT !.pc = "done", !.outcome = "returned", !.ads = ads,
                         !.response = response, !.producer[key] = l.args],
               r.mem, r.store,
               [lastSet EXCEPT ![key] = [data |-> response, at |-> now,
                                         ttl |-> Expiry(Undefined), local |-> r.local]])

\* scrape is called: the cache is asked first (lines 388-399)
LiStart(l, args, fault) ==
    LET key == LinkedInKey(args.accountOwner, args.country)
        r == CacheGet(redisOn, memoryCache, redisStore, key, now, fault)
        g == [l EXCEPT !.calls = @ + 1, !.args = args, !.toFetch = 0, !.idx = 0,
                       !.ads = <<>>, !.delays = {}, !.fromCache = FALSE,
                       !.outcome = "none", !.response = NoResponse,
                       !.servedArgs = NoArgs]
    IN  IF r.ret # Null
        THEN Effect([g EXCEPT !.pc = "done", !.outcome = "returned",
                              !.fromCache = TRUE,
                              !.response = [r.ret EXCEPT !.cached = TRUE],
                              !.servedArgs = l.producer[key]],
                    r.mem, redisStore, lastSet)
        ELSE Effect([g EXCEPT !.pc = "search"], r.mem, redisStore, lastSet)

\* fetchWithPlaywright(searchUrl) has settled (lines 399-423)
LiSearchStep(l, threw, found, fault) ==
    IF threw THEN NoStore([l EXCEPT !.pc = "done", !.outcome = "thrown"])
    ELSE IF found = 0 THEN LiStoreAndReturn(l, <<>>, fault)
    ELSE NoStore([l EXCEPT !.pc = "detail", !.idx = 1,
                           !.toFetch = Min(found, l.args.maxAds)])

\* one iteration of the detail loop (lines 423-464): the ad is pushed with
\* or without its details, the delay follows a successful fetch only
LiDetailStep(l, threw, fault) ==
    LET ads == Append(l.ads, [adId |-> l.idx, detailed |-> ~threw])
        delays == IF ~threw /\ l.idx < l.toFetch THEN l.delays \cup {l.idx}
                  ELSE l.delays
    IN  IF l.idx < l.toFetch
        THEN NoStore([l EXCEPT !.idx = @ + 1, !.ads = ads, !.delays = delays])
        ELSE LiStoreAndReturn([l EXCEPT !.delays = delays], ads, fault)

ApplyLi(e) ==
    /\ li' = e.o
    /\ memoryCache' = e.mem
    /\ redisStore' = e.store
    /\ lastSet' = e.ls
    /\ UNCHANGED <<redisOn, now, sets, cacheOp, NotAds>>

LiScrapeCalled ==
    /\ li.pc \in {"idle", "done"}
    /\ li.calls < MaxLiCalls
    /\ \E a \in AccountOwners, c \in Countries, n \in MaxAdsArgs, fault \in Healthy :
          ApplyLi(LiStart(li, LiArgs(a, c, n), fault))

LiSearchSettles ==
    /\ li.pc = "search"
    /\ \E threw \in BOOLEAN, found \in SearchAdCounts, fault \in Healthy :
          ApplyLi(LiSearchStep(li, threw, found, fault))

LiDetailSettles ==
    /\ li.pc = "detail"
    /\ \E threw \in BOOLEAN, fault \in Healthy :
          ApplyLi(LiDetailStep(li, threw, fault))

AdsNext ==
    \/ LiScrapeCalled
    \/ LiSearchSettles
    \/ LiDetailSettles

(***************************************************************************)
(* Specifications.                                                         *)
(***************************************************************************)
Others(except) ==
    /\ ("nj" = except \/ NJIdle)
    /\ ("cache" = except \/ "orch" = except \/ "ads" = except \/ CacheIdle)
    /\ ("scraper" = except \/ ScraperIdle)
    /\ ("disc" = except \/ DiscIdle)
    /\ ("key" = except \/ KeyIdle)
    /\ ("plat" = except \/ PlatIdle)
    /\ ("orch" = except \/ (OrchIdle /\ CsIdle))
    /\ ("links" = except \/ LinksIdle)
    /\ ("page" = except \/ PageIdle)
    /\ ("ads" = except \/ AdsIdle)

InitOrch == OrchInit /\ CsInit /\ OrchCacheInit /\ Others("orch")
NextOrch == OrchNext
SpecOrch == InitOrch /\ [][NextOrch]_vars

InitLinks == LinksInit /\ Others("links")
NextLinks == ExtractDepartmentLinksCalled
SpecLinks == InitLinks /\ [][NextLinks]_vars

InitPage == PageInit /\ Others("page")
NextPage == ExtractPageCalled
SpecPage == InitPage /\ [][NextPage]_vars

InitAds == AdsInit /\ AdsCacheInit /\ Others("ads")
NextAds == AdsNext
SpecAds == InitAds /\ [][NextAds]_vars

InitKey == KeyInit /\ Others("key")
NextKey == KeyForCalls
SpecKey == InitKey /\ [][NextKey]_vars

InitPlat == PlatInit /\ Others("plat")
NextPlat == PlatformDetected
SpecPlat == InitPlat /\ [][NextPlat]_vars

InitNJ == NJInit /\ Others("nj")
NextNJ == NJCall
SpecNJ == InitNJ /\ [][NextNJ]_vars

InitCache == CacheInit /\ Others("cache")
NextCache == CacheNext
SpecCache == InitCache /\ [][NextCache]_vars

InitScraper == ScraperInit /\ Others("scraper")
NextScraper == ScraperNext
SpecScraper == InitScraper /\ [][NextScraper]_vars

InitDisc == DiscInit /\ Others("disc")
NextDisc == DiscNext
SpecDisc == InitDisc /\ [][NextDisc]_vars

\* C1: needsJavaScript returns true for an empty-body or empty-root-container
\* shell page, and false for every page whose markup-stripped text is longer
\* than 500 characters, even when a shell signature is present.
EmptyShell(page) ==
    \E i \in 1..Len(page) : page[i].k \in {"rootdiv", "emptybody"}

C1_ShellTrueContentFalse ==
    njDone =>
        /\ (EmptyShell(njPage) /\ TextContentLength(njPage) <= 500
              => njResult = TRUE)
        /\ (TextContentLength(njPage) > 500 => njResult = FALSE)

\* The most recent set on the key of the call recorded in cacheOp, and
\* whether the entry it wrote is still within its ttl.
LastSetOfOp == lastSet[cacheOp.key]
WithinTtl(ls) == now < ls.at + ls.ttl * 1000

\* C4: with no primary store, get(k) returns v when the most recent
\* set(k, v, ttl) happened less than ttl seconds ago, and null for a key never
\* set or whose most recent set is ttl seconds or more in the past.
C4_GetHonoursTtl ==
    (cacheOp.op = "get" /\ ~redisOn) =>
        /\ ~cacheOp.exc
        /\ IF LastSetOfOp # NoEntry /\ WithinTtl(LastSetOfOp)
           THEN cacheOp.ret = LastSetOfOp.data
           ELSE cacheOp.ret = Null

\* a get exactly ttl seconds after the set finds nothing
C4_Witness ==
    /\ cacheOp.op = "get" /\ ~redisOn
    /\ LastSetOfOp # NoEntry
    /\ LastSetOfOp.ttl = 1
    /\ now = LastSetOfOp.at + 1000
    /\ cacheOp.ret = Null

\* C5: with a primary store configured, when set(k, v, ttl) hit a
\* primary-store error (so the entry went to the process-local store) and a
\* later get(k) before expiry also hits a primary-store error, get returns v.
C5_GetFallsBackToLocal ==
    ( /\ cacheOp.op = "get" /\ redisOn /\ cacheOp.redisFailed
      /\ LastSetOfOp # NoEntry
      /\ LastSetOfOp.local
      /\ WithinTtl(LastSetOfOp) )
    => cacheOp.ret = LastSetOfOp.data

\* C6: get and set never throw, whatever the primary store does.
C6_CacheNeverThrows ==
    cacheOp.op \in {"get", "set"} => ~cacheOp.exc

\* a get whose primary-store read or parse failed has completed
C6_Witness ==
    cacheOp.op = "get" /\ redisOn /\ cacheOp.redisFailed /\ ~cacheOp.exc

\* The plain-HTTP response of call c is good enough to be returned as is.
HttpIsEnough(c) ==
    ~c.http.exc /\ c.http.status = 200 /\ ~NeedsJavaScript(c.http.body)

BrowserStages == {"launch", "context", "setup", "nav"}

\* C2: fetch returns the plain-HTTP response with usedPlaywright = false,
\* without invoking the browser, exactly when the GET completed with status
\* 200 and the body does not need JavaScript; in every other case it invokes
\* the browser path and any result it returns has usedPlaywright = true.
C2_HttpOrBrowser ==
    \A i \in Calls :
        LET c == calls[i] IN
        c.pc \notin {"idle", "http"} =>
            IF HttpIsEnough(c)
            THEN /\ c.pc = "done" /\ c.outcome = "returned"
                 /\ ~c.usedPlaywright /\ ~c.invoked
                 /\ c.html = c.http.body /\ c.status = c.http.status
            ELSE /\ c.invoked
                 /\ (c.outcome = "returned" => c.usedPlaywright)

\* a 404 answer with substantial text went through the browser
C2_Witness ==
    \E i \in Calls :
        /\ calls[i].pc = "done" /\ calls[i].outcome = "returned"
        /\ calls[i].http = [exc |-> FALSE, status |-> 404, body |-> ContentPage]
        /\ calls[i].usedPlaywright

\* C3: an exception of the HTTP stage is never propagated and is always
\* followed by a browser-stage attempt; an exception of the browser stage is
\* propagated to the caller of fetch.
C3_HttpCaughtBrowserPropagates ==
    \A i \in Calls :
        LET c == calls[i] IN
        /\ (c.http.exc /\ c.pc # "http" => c.invoked)
        /\ (c.outcome = "thrown" => c.thrownAt \in BrowserStages /\ c.invoked)
        /\ (c.thrownAt \in BrowserStages => c.pc = "done" /\ c.outcome = "thrown")

\* the GET threw, the browser was tried, and its navigation threw
C3_Witness ==
    \E i \in Calls :
        /\ calls[i].http.exc /\ calls[i].invoked
        /\ calls[i].outcome = "thrown" /\ calls[i].thrownAt = "nav"

\* C7: under any interleaving of concurrent fetches that need the browser, at
\* most one browser instance is launched between shutdowns, so never more
\* than one launched instance is open.
C7_AtMostOneBrowser == Cardinality(OpenInstances) <= 1

StageRank(stage) ==
    CASE stage = "sitemap" -> 1 [] stage = "candidate" -> 2
      [] stage = "home" -> 3 [] stage = "link" -> 3

\* the URLs findCareerPage has fetched in one stage, in fetch order
RECURSIVE UrlsOfStage(_, _)
UrlsOfStage(log, stage) ==
    IF log = <<>> THEN <<>>
    ELSE (IF Head(log).stage = stage THEN <<Head(log).url>> ELSE <<>>)
         \o UrlsOfStage(Tail(log), stage)

\* C8: findCareerPage runs sitemap probing, heuristic candidates and homepage
\* link harvesting strictly in this order; a stage starts only after the
\* previous one ended without an accepted page, nothing is fetched once a
\* page has been accepted, and null is returned only after all three stages
\* have been exhausted.
C8_StagesInOrder ==
    /\ (fcp.pc \in {"sitemap", "nested", "resume"} => fcp.log = <<>>)
    /\ \A i, j \in 1..Len(fcp.log) :
          i < j => StageRank(fcp.log[i].stage) <= StageRank(fcp.log[j].stage)
    /\ (fcp.sawAcceptable => fcp.pc = "done" /\ fcp.result.kind = "found")
    /\ (fcp.result.kind = "found" =>
          fcp.result.url \in
             { fcp.log[n].url : n \in (Len(fcp.log) - Len(fcp.inflight) + 1)..Len(fcp.log) })
    /\ (fcp.result.kind = "null" =>
          /\ UrlsOfStage(fcp.log, "sitemap") = Take(fcp.sitemapUrls, 5)
          /\ UrlsOfStage(fcp.log, "candidate") = Candidates
          /\ UrlsOfStage(fcp.log, "home") = <<HomeUrl>>
          /\ UrlsOfStage(fcp.log, "link") = Take(fcp.links, 3))

\* not found after sitemap URLs, all candidates and three of more than three
\* harvested links were tried
C8_Witness ==
    /\ fcp.result.kind = "null"
    /\ Len(fcp.sitemapUrls) > 0
    /\ Len(fcp.links) > 3

\* C9: a result's url is a URL this call fetched through scraper.fetch, whose
\* fetch returned a status below 400 and content that passes
\* looksLikeCareerPage, and the result's html is the content of that fetch;
\* otherwise the call returns null.
C9_ResultWasFetchedAndAccepted ==
    /\ (fcp.pc = "done" => fcp.result.kind \in {"found", "null"})
    /\ (fcp.result.kind = "found" =>
          \E j \in 1..Len(fcp.inflight) :
             LET n == Len(fcp.log) - Len(fcp.inflight) + j
                 out == fcp.inflight[j]
             IN  /\ fcp.log[n].url = fcp.result.url
                 /\ ~out.exc /\ out # Pending
                 /\ out.status < 400
                 /\ LooksLikeCareerPage(out.html)
                 /\ out.html.id = n
                 /\ fcp.result.html = out.html)

\* the second harvested link was accepted after the first was not
C9_Witness ==
    /\ fcp.result.kind = "found"
    /\ fcp.log[Len(fcp.log)].stage = "link"
    /\ fcp.idx = 2

\* the call is suspended on a fetch that is still to settle, or on
\* fetchSitemapUrls, which has returned
AwaitingFetch ==
    CASE fcp.pc \in {"sitemap", "resume"} -> TRUE
      [] fcp.pc = "nested" -> fcp.nestedQueue # <<>>
      [] fcp.pc = "batch" -> \E j \in 1..Len(fcp.inflight) : fcp.inflight[j] = Pending
      [] fcp.pc \in {"probe", "home", "link"} -> fcp.inflight = <<Pending>>
      [] OTHER -> FALSE

\* C10: findCareerPage never throws: a failed fetch at any stage only makes
\* the next candidate or stage be tried, and the call ends with a result or
\* null.
C10_NeverThrows ==
    /\ fcp.result.kind # "thrown"
    /\ (fcp.pc = "done" <=> fcp.result.kind \in {"found", "null"})
    /\ (fcp.pc # "done" => AwaitingFetch)

\* every sitemap location failed, the candidates were tried, and the
\* homepage fetch threw
C10_Witness ==
    /\ fcp.result.kind = "null"
    /\ Len(fcp.smLog) = SitemapLocations
    /\ fcp.log[Len(fcp.log)].stage = "home"
    /\ fcp.inflight = <<FetchThrew>>

\* the candidates of the batch in flight whose fetch gave an acceptable page
AcceptableInBatch ==
    {j \in 1..Len(fcp.inflight) : Acceptable(fcp.inflight[j])}

FoundAtCandidate ==
    /\ fcp.result.kind = "found"
    /\ fcp.log # <<>>
    /\ fcp.log[Len(fcp.log)].stage = "candidate"

\* C11: the heuristic-candidate stage returns the earliest candidate in
\* candidate-list order whose fetch succeeded with a status below 400 and
\* whose content passes looksLikeCareerPage, whatever the order in which the
\* parallel fetches of a batch completed: every candidate before the batch
\* was fetched without one being acceptable, and within the batch the
\* acceptable candidate of least index is the one returned.
C11_EarliestCandidateWins ==
    /\ (fcp.pc = "batch" =>
          /\ ~fcp.sawAcceptable
          /\ UrlsOfStage(fcp.log, "candidate")
                = Take(Candidates, fcp.idx + Len(fcp.inflight) - 1))
    /\ (FoundAtCandidate =>
          /\ AcceptableInBatch # {}
          /\ LET first == CHOOSE j \in AcceptableInBatch :
                              \A k \in AcceptableInBatch : j <= k
             IN  /\ fcp.result.url = Candidates[fcp.idx + first - 1]
                 /\ fcp.result.html = fcp.inflight[first].html)

\* the second candidate of a batch completed first with an acceptable page,
\* the first one completed later, also acceptable, and is the one returned
C11_Witness ==
    /\ FoundAtCandidate
    /\ fcp.settled[1] = 2
    /\ {1, 2} \subseteq AcceptableInBatch
    /\ fcp.result.url = Candidates[fcp.idx]

\* the fetches of the call that have been started and have not settled
PendingCount(f) ==
    Cardinality({j \in 1..Len(f.inflight) : f.inflight[j] = Pending})

\* a step in which candidate fetches are started
StartsCandidateBatch ==
    /\ Len(fcp'.log) > Len(fcp.log)
    /\ fcp'.log[Len(fcp'.log)].stage = "candidate"

\* C20: during the heuristic-candidate stage at most 3 candidate fetches are
\* in flight at any time; the fetches of a batch are started only in a step
\* that leaves no fetch of the previous batch unsettled, at most 3 at a time,
\* and never after a batch in which a candidate was accepted.
C20_BatchesOfThree ==
    /\ [](fcp.pc = "batch" => Len(fcp.inflight) <= 3 /\ PendingCount(fcp) <= 3)
    /\ [][StartsCandidateBatch =>
            /\ (fcp.pc = "batch" => PendingCount(fcp) = 1)
            /\ (fcp.pc = "batch" =>
                  \A j \in 1..Len(fcp.inflight) : ~Acceptable(fcp.inflight[j]))
            /\ ~fcp'.sawAcceptable
            /\ Len(fcp'.log) - Len(fcp.log) <= 3
            /\ Len(fcp'.inflight) = Len(fcp'.log) - Len(fcp.log)
            /\ PendingCount(fcp') = Len(fcp'.inflight)]_vars

\* the second batch is in flight, after the three fetches of the first
\* batch settled without an acceptable page
C20_Witness ==
    /\ fcp.pc = "batch"
    /\ fcp.idx = 4
    /\ Len(UrlsOfStage(fcp.log, "candidate")) > 3
    /\ PendingCount(fcp) = Len(fcp.inflight)

\* the sitemap fetches that are not one of the four fixed locations
RECURSIVE NestedFetches(_)
NestedFetches(log) ==
    IF log = <<>> THEN <<>>
    ELSE (IF \E n \in 1..Len(SitemapUrlsToTry) : SitemapUrlsToTry[n] = Head(log)
          THEN <<>> ELSE <<Head(log)>>)
         \o NestedFetches(Tail(log))

IsPrefix(a, b) == Len(a) <= Len(b) /\ a = SubSeq(b, 1, Len(a))

\* C16: of a sitemap index, fetchSitemapUrls fetches the nested sitemaps
\* whose URL contains a career keyword and no others, the first 3 of them at
\* most; the entries of the nested sitemaps are merged into its result, and
\* every URL it returns contains a career keyword.
C16_NestedCareerSitemapsOnly ==
    LET nested == NestedFetches(fcp.smLog)
        wanted == SelectSeq(SelectSeq(fcp.smIndex, EndsWithXml), HasCareerKeyword)
    IN  /\ Len(nested) <= 3
        /\ \A n \in 1..Len(nested) :
              EndsWithXml(nested[n]) /\ HasCareerKeyword(nested[n])
        /\ (fcp.pc \in {"sitemap", "nested", "resume"} => IsPrefix(nested, wanted))
        /\ (fcp.pc = "resume" =>
              /\ nested = Take(wanted, 3)
              /\ \A u \in fcp.nestedGot :
                    HasCareerKeyword(u) =>
                        \E n \in 1..Len(fcp.sitemapUrls) : fcp.sitemapUrls[n] = u)
        /\ \A n \in 1..Len(fcp.sitemapUrls) : HasCareerKeyword(fcp.sitemapUrls[n])

\* an index listing four career sitemaps and one other: three were
\* fetched, and an entry of one of them is in the result
C16_Witness ==
    /\ fcp.pc = "resume"
    /\ Len(SelectSeq(SelectSeq(fcp.smIndex, EndsWithXml), HasCareerKeyword)) = 4
    /\ USmPages \in {fcp.smIndex[n] : n \in 1..Len(fcp.smIndex)}
    /\ Len(NestedFetches(fcp.smLog)) = 3
    /\ UJob \in fcp.nestedGot
    /\ UAbout \in fcp.nestedGot
    /\ UJob \in {fcp.sitemapUrls[n] : n \in 1..Len(fcp.sitemapUrls)}

\* platform domains and markup signatures with their tags, in the order
\* recruitee, greenhouse, lever, workable
PlatformTags == <<"recruitee", "greenhouse", "lever", "workable">>
DomainOf(tag) ==
    CASE tag = "recruitee" -> "recruitee.com" [] tag = "greenhouse" -> "greenhouse.io"
      [] tag = "lever" -> "lever.co" [] tag = "workable" -> "workable.com"
SignaturesOf(tag) ==
    CASE tag = "recruitee" -> {"recruitee", "d3ii2lldyojfer.cloudfront.net"}
      [] tag = "greenhouse" -> {"greenhouse-jobboard", "boards.greenhouse.io"}
      [] tag = "lever" -> {"lever-jobs", "jobs.lever.co"}
      [] tag = "workable" -> {"workable-careers"}

\* the tags whose domain the url holds, and the positions in PlatformTags of
\* the tags of which the markup holds a signature, letter case aside
UrlTags(url) ==
    {t \in {PlatformTags[n] : n \in 1..4} :
        \E i \in 1..Len(url) : DomainOf(t) \in PatternsIn(LowerPiece(url[i]))}
MarkupRanks(html) ==
    {n \in 1..4 : \E i \in 1..Len(html) :
        SignaturesOf(PlatformTags[n]) \cap PatternsIn(LowerPiece(html[i])) # {}}

\* C15: the platform of a discovery result is a tag matched by the page URL
\* when the URL contains a known platform domain, otherwise the tag of the
\* first markup signature that matches in the order recruitee, greenhouse,
\* lever, workable, otherwise none.
C15_UrlThenMarkupThenNone ==
    plat.done =>
        IF UrlTags(plat.url) # {} THEN plat.platform \in UrlTags(plat.url)
        ELSE IF MarkupRanks(plat.html) # {}
             THEN \E n \in MarkupRanks(plat.html) :
                     /\ \A m \in MarkupRanks(plat.html) : n <= m
                     /\ plat.platform = PlatformTags[n]
             ELSE plat.platform = NoPlatform

\* a page on no platform domain whose markup holds a lever signature before
\* a greenhouse one is tagged greenhouse
C15_Witness ==
    /\ plat.done
    /\ plat.url = <<"acme.nl/careers">>
    /\ plat.html = <<"Lever-Jobs", "greenhouse-jobboard">>
    /\ plat.platform = "greenhouse"

\* x and y are the same string up to the case of their letters
SameUpToCase(x, y) ==
    /\ Len(x) = Len(y)
    /\ \A i \in 1..Len(x) :
          x[i] = y[i] \/ {x[i], y[i]} \in {{"a", "A"}, {"b", "B"}}

RECURSIVE TrimStart(_)
TrimStart(str) ==
    IF str # <<>> /\ Head(str) = " " THEN TrimStart(Tail(str)) ELSE str
RECURSIVE TrimEnd(_)
TrimEnd(str) ==
    IF str # <<>> /\ str[Len(str)] = " "
    THEN TrimEnd(SubSeq(str, 1, Len(str) - 1)) ELSE str
Trim(str) == TrimEnd(TrimStart(str))

\* C19: inputs that differ only by leading or trailing whitespace have the
\* same key.
C19_KeyForIgnoresWhitespace ==
    (kf.done /\ Trim(kf.x) = Trim(kf.y)) => kf.keyX = kf.keyY

\* the most recent cache.set of Orchestrator.scrape for its key
OrchEntry == lastSet[OrchKey(orch.detailLimit)]
EntryValidAt(entry, t) == entry # NoEntry /\ t < entry.at + entry.ttl * 1000

\* C12: with the primary store absent or healthy, a scrape that ends with a
\* found or a not-found result has stored that response under the 24-hour
\* ttl; a scrape called before the ttl of the stored response has elapsed
\* returns that payload with cached = true and runs no discovery, fetch or
\* extraction; not-found is returned as a response with hasVacancies = false
\* and vacancyCount = 0, never as an error.
C12_ResultsCachedForADay ==
    /\ (orch.pc \notin {"idle", "done"} \/ orch.outcome = "thrown"
          => ~orch.fromCache /\ ~EntryValidAt(OrchEntry, orch.startedAt))
    /\ (orch.outcome = "returned" /\ orch.fromCache =>
          /\ EntryValidAt(OrchEntry, orch.startedAt)
          /\ orch.response = [OrchEntry.data EXCEPT !.cached = TRUE]
          /\ orch.log = <<>> /\ orch.pages = <<>>)
    /\ (orch.outcome = "returned" /\ ~orch.fromCache =>
          /\ OrchEntry # NoEntry
          /\ OrchEntry.data = orch.response
          /\ OrchEntry.ttl = 24 * 60 * 60
          /\ OrchEntry.at = orch.startedAt
          /\ ~orch.response.cached
          /\ (EntryValidAt(OrchEntry, now) <=>
                CacheGet(redisOn, memoryCache, redisStore,
                         OrchKey(orch.detailLimit), now, "ok").ret = orch.response))
    /\ (orch.pc = "done" /\ ~orch.fromCache /\ ~orch.site.found =>
          /\ orch.outcome = "returned"
          /\ ~orch.response.hasVacancies
          /\ orch.response.vacancyCount = 0)

\* a not-found response stored at 0 is returned from the cache twelve hours
\* later
C12_Witness ==
    /\ orch.outcome = "returned" /\ orch.fromCache
    /\ ~orch.site.found
    /\ orch.startedAt = ClockStep
    /\ OrchEntry.at = 0
    /\ orch.response.cached /\ ~orch.response.hasVacancies

\* the calls scrape made, in order
Called(service) == \E n \in 1..Len(orch.log) : orch.log[n] = service

\* C13: for a fingerprinted platform scrape calls the platform client
\* before any AI extraction, and it calls the AI extraction service exactly
\* when no platform was fingerprinted, no client exists for the platform,
\* or the client yielded no vacancies.
C13_AiExactlyWhenClientYieldsNothing ==
    (orch.outcome = "returned" /\ ~orch.fromCache /\ orch.careerPage.found) =>
        /\ (orch.careerPage.platform # NoPlatform =>
              /\ Called("platform")
              /\ \A n \in 1..Len(orch.log) :
                    orch.log[n] = "ai" => \E k \in 1..(n - 1) : orch.log[k] = "platform")
        /\ (Called("ai") <=>
              \/ orch.careerPage.platform = NoPlatform
              \/ orch.careerPage.platform # "recruitee"
              \/ orch.method = "parser" /\ orch.vacancies = <<>>)

\* C14: scrape ends in an error only when the AI extraction service errors;
\* neither a platform inferred from markup on a non-platform URL nor a
\* failing platform client makes the run fail.
C14_OnlyAiErrorsFail ==
    orch.outcome = "thrown" => orch.thrownBy = "ai"

\* the pages of one loop that were started, in order
RECURSIVE PagesOf(_, _)
PagesOf(pages, kind) ==
    IF pages = <<>> THEN <<>>
    ELSE (IF Head(pages).kind = kind THEN <<Head(pages).n>> ELSE <<>>)
         \o PagesOf(Tail(pages), kind)

\* the vacancies the detail loop has to fetch: those among the first
\* detailLimit that have a page of their own
RECURSIVE OwnPagesUpTo(_, _)
OwnPagesUpTo(vacancies, n) ==
    IF n = 0 THEN <<>>
    ELSE OwnPagesUpTo(vacancies, n - 1)
         \o (IF vacancies[n].ownPage THEN <<n>> ELSE <<>>)

\* C17: a failure to fetch or extract one page of a multi-page run does not
\* abort the run: in Orchestrator.scrape every department page (the first 5)
\* and every vacancy detail page, in ChatSyncOrchestrator.scrape every target
\* page, is processed in order, and the run returns a response that was
\* written to the cache.
C17_PageFailuresAreSkipped ==
    /\ (orch.outcome = "thrown" => orch.thrownBy \in {"platform", "ai"})
    /\ PagesOf(orch.pages, "dept") \o PagesOf(orch.pages, "detail")
          = [n \in 1..Len(orch.pages) |-> orch.pages[n].n]
    /\ (orch.pc = "dept" => PagesOf(orch.pages, "dept") = [n \in 1..orch.idx |-> n])
    /\ (orch.pc = "detail" =>
          PagesOf(orch.pages, "detail") =
             OwnPagesUpTo(orch.vacancies, orch.idx))
    /\ (orch.outcome = "returned" /\ ~orch.fromCache /\ orch.careerPage.found =>
          /\ (orch.method = "ai" /\ Len(orch.vacancies) < FewVacancies =>
                PagesOf(orch.pages, "dept") =
                   [n \in 1..Min(orch.careerPage.deptLinks, MaxDeptPages) |-> n])
          /\ PagesOf(orch.pages, "detail") =
                OwnPagesUpTo(orch.vacancies, Min(orch.detailLimit, Len(orch.vacancies)))
          /\ OrchEntry # NoEntry /\ OrchEntry.data = orch.response)
    /\ (orch.failed # {} /\ orch.pc = "done" => orch.outcome = "returned")
    /\ cs.outcome # "thrown"
    /\ (cs.pc = "page" => cs.pages = [n \in 1..cs.idx |-> n])
    /\ (cs.pc = "done" /\ ~cs.fromCache =>
          /\ cs.outcome = "returned"
          /\ cs.pages = [n \in 1..cs.targets |-> n]
          /\ lastSet[CsKey(cs.maxPages)] # NoEntry
          /\ lastSet[CsKey(cs.maxPages)].data = cs.response)

\* both runs returned after failures: a department page and a detail page
\* failed in one, with five department pages and two detail pages processed,
\* and the first of two pages failed in the other
C17_Witness ==
    /\ orch.outcome = "returned"
    /\ orch.failed = {"dept", "detail"}
    /\ Len(PagesOf(orch.pages, "dept")) = MaxDeptPages
    /\ Len(PagesOf(orch.pages, "detail")) = 2
    /\ cs.outcome = "returned" /\ cs.failed /\ cs.response.pageCount = 1
    /\ cs.pages = <<1, 2>>

\* C21: every browsing context opened by a fetchWithPlaywright call has been
\* closed by the time the call returns or throws, on every path, the failure
\* of page creation or of the init script included.
C21_ContextClosedOnExit ==
    \A i \in Calls : calls[i].pc = "done" => calls[i].ctx # "open"

\* the stage in which findCareerPage fetched the page it returned
AcceptedInStage(stage) ==
    /\ fcp.pc = "done" /\ fcp.result.kind = "found"
    /\ fcp.log # <<>> /\ fcp.log[Len(fcp.log)].stage = stage

\* C23: when the sitemap stage accepts a page, additionalUrls are the ranked
\* sitemap URLs without the returned URL, in rank order, at most 50 of them.
C23_RelatedUrlsAreTheRemainingOnes ==
    AcceptedInStage("sitemap") =>
        fcp.result.additionalUrls =
            Take(SelectSeq(fcp.sitemapUrls, LAMBDA u : u # fcp.result.url),
                 MaxAdditionalUrls)

\* C29: no URL of a sitemap file (an entry ending in .xml) is returned by
\* fetchSitemapUrls, probed by the sitemap stage or returned as the career
\* page.
C29_NoSitemapFileIsACandidate ==
    /\ \A n \in 1..Len(fcp.sitemapUrls) : ~EndsWithXml(fcp.sitemapUrls[n])
    /\ \A n \in 1..Len(fcp.log) :
          fcp.log[n].stage = "sitemap" => ~EndsWithXml(fcp.log[n].url)
    /\ (AcceptedInStage("sitemap") => ~EndsWithXml(fcp.result.url))

\* C25: every link extractDepartmentLinks returns is internal: its hostname
\* contains the hostname of the base URL without 'www.'; a link with another
\* hostname is not returned, wherever else in it the base domain occurs.
C25_DepartmentLinksAreInternal ==
    edl.done =>
        \A n \in 1..Len(edl.links) :
            IncludesText(edl.links[n].host, StripWww(edl.base.host))

\* C26: building a page record never throws, whatever the html and the url
\* (a malformed url included): extractPage completes with a record.
C26_ExtractPageNeverThrows ==
    xp.done => ~xp.out.exc /\ xp.out.page # NoPart

\* the pages array of the ChatSync run only grows at its end
KeptOnlyGrows ==
    cs.pc = "page" => IsPrefix(cs.kept, cs'.kept)

\* C24: every ChatSync response holds at most maxPages pages, in the order of
\* the target URLs, each with content of at least 50 characters and no two
\* with the same content_hash; the hash is that of the truncated content
\* alone, so of several URLs with the same content only the earliest is kept
\* (a page once kept stays, a later one with its content is skipped).
C24_ChatSyncPagesDistinctAndOrdered ==
    /\ [](LET pages == cs.kept IN
            /\ Len(pages) <= cs.maxPages
            /\ \A i, j \in 1..Len(pages) :
                  i < j => /\ pages[i].url.n < pages[j].url.n
                           /\ pages[i].content_hash # pages[j].content_hash
                           /\ pages[i].content # pages[j].content
            /\ \A i \in 1..Len(pages) :
                  /\ pages[i].content.len >= 50
                  /\ pages[i].content.len <= TruncateLimit
                  /\ pages[i].content_hash = CreateContentHash(pages[i].content)
            /\ \A n \in cs.dupes :
                  \E i \in 1..Len(pages) : pages[i].url.n < n
            /\ (cs.outcome = "returned" /\ ~cs.fromCache =>
                  /\ cs.response.pages = pages
                  /\ cs.response.pageCount = Len(pages)))
    /\ [][KeptOnlyGrows]_vars

\* two URLs served documents that differ beyond the first 3000 characters
\* only: the first is kept, cut at its last sentence, the second is skipped
C24_Witness ==
    /\ cs.outcome = "returned"
    /\ cs.dupes = {2}
    /\ Len(cs.response.pages) = 1
    /\ cs.response.pages[1].url.n = 1
    /\ cs.response.pages[1].content = Text("L", "", 2000)

\* C22: in the ChatSync page loop the rate-limit delay elapses between every
\* two consecutive page fetches of a run, whatever became of the earlier one.
C22_DelayBetweenPageFetches ==
    cs.pc \in {"page", "done"} =>
        \A n \in 1..Len(cs.pages) : n < Len(cs.pages) => n \in cs.delays

\* request parameters the cache keys are compared on
KeyDomains == {<<"a">>, <<"A">>, <<"b">>, <<"a", "b">>, <<"A", "B">>}
KeyRegions == {<<"a">>, <<"A">>, <<"b">>}
KeyMaxPages == {1, 2, 20}

\* C30: a response served from the cache was produced by a run with the same
\* request parameters as the request it is served to, letter case aside:
\* LinkedIn Ads accountOwner, country and maxAds; vacancies domain and
\* detailLimit; ChatSync domain and maxPages; Google Ads domain and region
\* (a response is served exactly when the keys of the two requests are equal).
C30_ServedToSameParameters ==
    /\ (li.fromCache =>
          /\ LowerCased(li.servedArgs.accountOwner) = LowerCased(li.args.accountOwner)
          /\ li.servedArgs.country = li.args.country
          /\ li.servedArgs.maxAds = li.args.maxAds)
    /\ \A d1, d2 \in KeyDomains, n1, n2 \in DetailLimits :
          VacancyKey(d1, n1) = VacancyKey(d2, n2)
             => LowerCased(d1) = LowerCased(d2) /\ n1 = n2
    /\ \A d1, d2 \in KeyDomains, n1, n2 \in KeyMaxPages :
          ChatSyncKey(d1, n1) = ChatSyncKey(d2, n2)
             => LowerCased(d1) = LowerCased(d2) /\ n1 = n2
    /\ \A d1, d2 \in KeyDomains, r1, r2 \in KeyRegions :
          GoogleAdsKey(d1, r1) = GoogleAdsKey(d2, r2)
             => LowerCased(d1) = LowerCased(d2) /\ LowerCased(r1) = LowerCased(r2)

\* the entry a completed set(k) leaves in the process-local store
WrittenBy(set) == [data |-> set.data, expires |-> set.at + set.ttl * MsPerSecond]

LocalEntriesWhole ==
    ~redisOn =>
        /\ \A k \in Keys :
              memoryCache[k] = NoEntry
              \/ (lastSet[k] # NoEntry /\ memoryCache[k] = WrittenBy(lastSet[k]))
        /\ (cacheOp.op = "get" /\ cacheOp.ret # Null) =>
              /\ lastSet[cacheOp.key] # NoEntry
              /\ cacheOp.ret = lastSet[cacheOp.key].data
              /\ memoryCache[cacheOp.key] = WrittenBy(lastSet[cacheOp.key])

OtherKeysKept ==
    (~redisOn /\ cacheOp'.op \in {"get", "set"}) =>
        \A k \in Keys \ {cacheOp'.key} : memoryCache'[k] = memoryCache[k]

\* C27: on the process-local store, with get and set calls of any number of
\* runs interleaved, a get(k) returns absent or the value of the most
\* recently completed set(k), read from an entry that holds that set's value
\* and that set's expiry; every entry is absent or whole; and a get or set on
\* one key leaves the entry of every other key as it was.
C27_LocalStoreIsConsistent == []LocalEntriesWhole /\ [][OtherKeysKept]_vars

C27_Witness ==
    /\ ~redisOn
    /\ cacheOp.op = "get" /\ cacheOp.key = "k1"
    /\ lastSet["k1"] # NoEntry
    /\ cacheOp.ret = lastSet["k1"].data
    /\ sets = 2
    /\ memoryCache["k2"] # NoEntry
    /\ now > lastSet["k1"].at

\* what the process-local store holds at t: an entry past its expiry counts
\* as absent, get removes it when it meets one (cache.ts lines 29-34)
Live(mem, t) ==
    [k \in DOMAIN mem |->
        IF mem[k] # NoEntry /\ mem[k].expires > t THEN mem[k] ELSE NoEntry]

\* a step of a run writes to the cache only when it ends the run with a
\* freshly built response
WritesOnlyOnReturn ==
    (orch' # orch /\ ~(orch'.outcome = "returned" /\ ~orch'.fromCache)) =>
        /\ lastSet' = lastSet
        /\ redisStore' = redisStore
        /\ Live(memoryCache', now) = Live(memoryCache, now)
        /\ \A k \in OrchKeys \ {OrchKey(orch'.detailLimit)} :
              memoryCache'[k] = memoryCache[k]

\* the call that follows a failed run finds nothing under its key
FailureNotServed ==
    (orch.outcome = "thrown" /\ orch' # orch) =>
        /\ ~orch'.fromCache
        /\ orch'.pc = "discovery"
        /\ orch'.log = <<"discovery">>

\* C28: a run of scrape that ends in an error, the platform client or the AI
\* extraction having thrown, has written nothing to the cache: no step of it
\* stores an entry, and the entries the cache holds are those it held when
\* the run began; at the end of the run no valid entry stands under its key,
\* and the next scrape of the domain runs discovery again.
C28_FailedRunWritesNothing ==
    /\ [](orch.outcome = "thrown" =>
            /\ ~EntryValidAt(OrchEntry, now)
            /\ (OrchEntry # NoEntry => OrchEntry.at < orch.startedAt)
            /\ CacheGet(redisOn, memoryCache, redisStore,
                        OrchKey(orch.detailLimit), now, "ok").ret = Null)
    /\ [][WritesOnlyOnReturn]_vars
    /\ [][FailureNotServed]_vars

\* a run fails a day after an earlier run of the same domain had stored its
\* response, with the crawl's response still in the cache
C28_Witness ==
    /\ orch.outcome = "thrown"
    /\ OrchEntry # NoEntry /\ OrchEntry.at = 0
    /\ orch.startedAt = 2 * ClockStep
    /\ lastSet[CsKey(2)] # NoEntry

====
